---- MODULE Spec2Model ----
(***************************************************************************)
(* A model of the browser-automation engine of ai-agent-linkedin:          *)
(* the locator chain resolver (first_locator), the wait coordinator        *)
(* (wait_network_idle), the filter sequencers (apply_filters,              *)
(* apply_left_nav_filters), the job discovery loop                         *)
(* (find_and_apply_to_first_job), the Easy Apply modal state machine       *)
(* (handle_easy_apply_modal, close_application_modal) and the session      *)
(* scoping of the entry points (launch_browser, resume_automation,         *)
(* continue_from_linkedin_home).                                           *)
(*                                                                         *)
(* The page is the environment: every driver call (count, wait_for,        *)
(* is_enabled, click ...) gets its outcome from the page, drawn with \E.   *)
(* One behaviour of the model is one call of one operation; `unit` says    *)
(* which, and every action leaves the other operations' variables alone.   *)
(***************************************************************************)
EXTENDS Naturals, Integers, Sequences, FiniteSets, TLC

\* ------------------------------------------------------------------ bounds
\* The number of times the filter sequence is run on one page.
MaxRuns == 2
\* The largest number of job cards the result page shows.
MaxJobs == 11

\* The largest number of fields of the application form.
MaxFields == 2

\* The longest locator chain handed to first_locator.
MaxChain == 4

\* --------------------------------------------------------- program constants
\* range(min(job_count, 10))
MaxCandidates == 10
\* max_steps = 10
max_steps == 10
\* len(apply_button_selectors)
NumApplySelectors == 32
\* len(modal_selectors)
NumModalSelectors == 12
\* len(review_selectors)
NumReviewSelectors == 4
\* len(submit_application_selectors)
NumSubmitSelectors == 9
\* len(next_button_selectors)
NumNextSelectors == 9
\* len(close_modal_selectors)
NumCloseSelectors == 9
\* wait_network_idle(page, timeout = 10000)
DefaultSettleTimeout == 10000
\* wait_for_load_state("domcontentloaded", timeout=5000)
FallbackSettleTimeout == 5000
\* first_locator(page, selectors, timeout: float = 6000)
DefaultLocatorTimeout == 6000
\* len(date_filter_selectors)
NumDateFilterSelectors == 5
\* len(past_24_selectors)
NumPast24Selectors == 5
\* len(show_results_selectors)
NumShowResultsSelectors == 6
\* len(easy_apply_selectors)
NumEasyApplySelectors == 4
\* len(apply_selectors) of click_modal_apply_and_wait
NumModalApplySelectors == 5
\* for i in range(15): the enablement polls of click_modal_apply_and_wait
NumEnablePolls == 15
\* assert_chip_applied(text, timeout: int = 8000)
VerifyTimeout == 8000
\* wait_for(state="visible", timeout=1000) of assert_chip_applied
ChipWaitTimeout == 1000
\* the two selectors assert_chip_applied tries
NumChipSelectors == 2
\* wait_for_captcha_completion: the ceiling and the sleep between polls (s)
max_wait_time == 300
check_interval == 3
\* required_field_selectors of handle_required_fields
NumRequiredFieldSelectors == 5

VARIABLES
    unit,           \* the operation this behaviour executes
    pc,             \* the position of the flow inside it
    sel,            \* index of the selector the current scan will try next
    \* ---- find_and_apply_to_first_job
    job_count,      \* await job_cards.count()
    i,              \* the loop index of `for i in range(min(job_count, 10))`
    opened,         \* indices of the job cards clicked so far, in click order
    indicator,      \* the page shows an already-applied indicator for card i
    status,         \* JobCandidate status of the current card
    apply_btn,      \* apply_btn is not None
    apply_region,   \* where the element of apply_btn sits: "none" | "job-detail" | "global"
    button_text,    \* class of button_text: "" | "apply" | "other"
    apply_clicked,  \* the apply control of the current card was clicked
    applied,        \* number of cards whose application was reported successful
    result,         \* what find_and_apply_to_first_job returned
    \* ---- handle_easy_apply_modal
    modal_open,     \* page state: an application modal overlays the page
    mstate,         \* ModalSession state
    modal_found,
    step,
    iters,          \* iterations of `while step < max_steps` started
    enabled_seen,   \* controls seen visible and enabled in this iteration
    clicked,        \* controls clicked (click returned) in this iteration
    closes,         \* close_application_modal calls of this session, by call site
    success,        \* return value: "none" | "True" | "False"
    pause_done,     \* the 30 s sleep of this session has completed
    autofills,      \* handle_required_fields calls of this session
    advances,       \* Review and Next clicks of this session that returned
    \* ---- first_locator
    chain,          \* per selector of the chain: its visibility wait succeeds
    fl_result,      \* "none" | "found" | "RuntimeError"
    fl_index,       \* index of the selector whose element was returned
    fl_elapsed,     \* ms spent in visibility waits that timed out
    \* ---- wait_network_idle
    waits,          \* the load states awaited so far, with their timeouts
    wn_result,      \* "none" | "returned" | "raised"
    \* ---- apply_filters, apply_left_nav_filters
    attempted,      \* the filter steps entered so far, in order
    failed,         \* the filter steps that ended in their except handler
    fs_result,      \* "none" | "returned" | "raised"
    \* ---- resume_automation, continue_from_linkedin_home
    browser,        \* "none" | "open" | "closed"
    context,        \* "none" | "open" | "closed"
    screenshot,     \* a diagnostic screenshot was written
    run_end,        \* "running" | "returned" | "exception" | "interrupted"
    \* ---- click_modal_apply_and_wait and the Department step that calls it
    dialog,         \* page state: a filter dialog is visible
    use_panel,      \* target_scope is the dialog panel, not the section container
    cm_call,        \* number of click_modal_apply_and_wait calls of the step so far
    polls,          \* enablement polls that did not find the button enabled
    checks,         \* evaluate() calls of the enablement loop
    last_obs,       \* what the last one saw: "none" | "enabled" | "disabled" | "raised"
    tried,          \* the click strategies run in the current call, in order
    threw,          \* per strategy run: it raised
    dispatched,     \* the clicks dispatched on the page, in order
    cm_clicked,     \* the `clicked` local of the current call
    cm_result,      \* "none" | "returned" | "raised"
    verify_log,     \* <<call, outcome>> of every assert_chip_applied of the step
    caller_saw,     \* what the Department step printed: "none" | "clicked" | "failed"
    \* ---- assert_chip_applied
    generic_chip,   \* page state: some chip/tag container is visible
    value_at,       \* ms after the call at which the selected value becomes visible
    ac_now,         \* ms elapsed since the call
    ac_result,      \* "none" | "returned" | "RuntimeError"
    \* ---- the result page apply_filters works on, over repeated runs
    page_filters,   \* the filters the page shows as applied
    date_selected,  \* "Past 24 hours" is the selected option of the Date dropdown
    easy_toggles,   \* the Easy Apply control is a toggle (checkbox, pill)
    runs,           \* completed apply_filters calls on this page
    after_first,    \* page_filters when the first call returned
    form0,          \* the form when handle_required_fields is called
    form,           \* the form now: per field its markup, visibility and value
    rf_i,           \* index into the current selector's matches
    writes,         \* the fill() calls made: field, value read before, visibility
    captcha_el,     \* a CAPTCHA selector matches the page
    captcha_text,   \* the page content holds a CAPTCHA phrase
    captcha_found,  \* local of wait_for_captcha_completion
    waited_time,    \* local: seconds slept so far
    cw_polls,       \* loop bodies entered
    logged_in,      \* what shows the login succeeded: "no" | "url" | "indicator"
    solved_poll,    \* cw_polls when the login succeeded
    cw_result,      \* "none" | "success" | "timeout" | "no_captcha"
    card,           \* per metadata field what text_content() on the card does
    job_info,       \* local dict of the loop body: title, company, location, link
    emitted,        \* the record find_and_apply_to_first_job returned to the run
    login_button,   \* "none" | "clicked" | "absent"
    failed_step,    \* the step of main_async an Exception left from, or "none"
    started,        \* the steps of main_async started so far
    unsettled,      \* the state-changing click no wait_network_idle has followed yet, or "none"
    checked,        \* the targeted checkbox is selected
    checked0,       \* whether it was selected when robust_check_checkbox was called
    rc_via,         \* the strategy that returned: "none" | "check" | "label" | "script" | "nothing"
    nav_page,       \* where the page is: "home" | "jobs" | "results" | "error"
    menu_found,     \* the Jobs menu was resolved and clicked
    search_successful, \* local: the job title input was filled
    location_filled, \* the location input was filled
    form_reached,   \* the form-based search arrived at the search results
    direct_goto,    \* page.goto(search_url) was called
    smtp_fields,    \* the fields of cfg.smtp that are set
    report_written, \* write_excel_report returned
    email           \* "none" | "sent" | "failed" | "skipped"

jobVars == <<job_count, i, opened, indicator, status, apply_btn, apply_region, button_text,
             apply_clicked, applied, result>>
modalVars == <<modal_open, mstate, modal_found, step, iters, enabled_seen,
               clicked, closes, success>>
humanVars == <<pause_done, autofills, advances>>
locVars == <<chain, fl_result, fl_index, fl_elapsed>>
waitVars == <<waits, wn_result>>
filterVars == <<attempted, failed, fs_result>>
runVars == <<browser, context, screenshot, run_end>>
confirmVars == <<dialog, use_panel, cm_call, polls, checks, last_obs, tried, threw, dispatched, cm_clicked,
                 cm_result, verify_log, caller_saw>>
chipVars == <<generic_chip, value_at, ac_now, ac_result>>
pageVars == <<page_filters, date_selected, easy_toggles, runs, after_first>>
fieldVars == <<form0, form, rf_i, writes>>
captchaVars == <<captcha_el, captcha_text, captcha_found, waited_time, cw_polls, logged_in, solved_poll, cw_result>>
infoVars == <<card, job_info, emitted>>
mainVars == <<login_button, failed_step, started>>
settleVars == <<unsettled>>
checkboxVars == <<checked, checked0, rc_via>>
navVars == <<nav_page, menu_found, search_successful, location_filled, form_reached, direct_goto>>
mailVars == <<smtp_fields, report_written, email>>
vars == <<unit, pc, sel, jobVars, modalVars, locVars, waitVars, filterVars, runVars,
          confirmVars, chipVars, pageVars, humanVars, fieldVars, captchaVars, infoVars, mainVars, settleVars, checkboxVars, navVars, mailVars>>

\* What the actions of one operation leave alone: the other operations' variables.
outsideSteps == <<locVars, waitVars, filterVars, runVars, confirmVars, chipVars, pageVars, fieldVars, captchaVars, infoVars, mainVars, checkboxVars, navVars, mailVars>>
outsideModal == <<outsideSteps, settleVars, checkboxVars, navVars, mailVars>>
outsideJob == <<outsideModal, humanVars>>
outsideLocator == <<jobVars, modalVars, waitVars, filterVars, runVars, confirmVars, chipVars, pageVars, humanVars, fieldVars, captchaVars, infoVars, mainVars, settleVars, checkboxVars, navVars, mailVars>>
outsideWait == <<jobVars, modalVars, locVars, filterVars, runVars, confirmVars, chipVars, pageVars, humanVars, fieldVars, captchaVars, infoVars, mainVars, settleVars, checkboxVars, navVars, mailVars>>
outsideFilters == <<jobVars, modalVars, locVars, waitVars, runVars, confirmVars, chipVars, humanVars, fieldVars, captchaVars, infoVars, mainVars, settleVars, checkboxVars, navVars, mailVars>>
outsideRun == <<jobVars, modalVars, locVars, waitVars, filterVars, confirmVars, chipVars, pageVars, humanVars, fieldVars, captchaVars, infoVars, mainVars, settleVars, checkboxVars, navVars, mailVars>>
outsideConfirm == <<jobVars, modalVars, locVars, waitVars, filterVars, runVars, chipVars, pageVars, humanVars, fieldVars, captchaVars, infoVars, mainVars, settleVars, checkboxVars, navVars, mailVars>>
outsideChip == <<jobVars, modalVars, locVars, waitVars, filterVars, runVars, confirmVars, pageVars, humanVars, fieldVars, captchaVars, infoVars, mainVars, settleVars, checkboxVars, navVars, mailVars>>
outsideFields == <<jobVars, modalVars, locVars, waitVars, filterVars, runVars, confirmVars, chipVars, pageVars, humanVars, captchaVars, infoVars, mainVars, settleVars, checkboxVars, navVars, mailVars>>
outsideCaptcha == <<jobVars, modalVars, locVars, waitVars, filterVars, runVars, confirmVars, chipVars, pageVars, humanVars, fieldVars, infoVars, mainVars, settleVars, checkboxVars, navVars, mailVars>>
outsideInfo == <<jobVars, modalVars, locVars, waitVars, filterVars, runVars, confirmVars, chipVars, pageVars, humanVars, fieldVars, captchaVars, mainVars, settleVars, checkboxVars, navVars, mailVars>>
outsideMainMail == <<jobVars, modalVars, locVars, waitVars, filterVars, confirmVars, chipVars, pageVars, humanVars, fieldVars, captchaVars, infoVars, settleVars, checkboxVars, navVars>>
outsideMain == <<outsideMainMail, mailVars>>
outsideCheckbox == <<jobVars, modalVars, locVars, waitVars, filterVars, runVars, confirmVars, chipVars, pageVars, humanVars, fieldVars, captchaVars, infoVars, mainVars, settleVars, navVars, mailVars>>
outsideNav == <<jobVars, modalVars, locVars, waitVars, filterVars, runVars, confirmVars, chipVars, pageVars, humanVars, fieldVars, captchaVars, infoVars, mainVars, settleVars, checkboxVars, mailVars>>

\* The driver's own default timeout (ms), used when a wait is given none.
DriverDefaultTimeout == 30000

\* ----------------------------------------------------------------- helpers
Min(a, b) == IF a < b THEN a ELSE b

\* What one selector of a control chain yields when the loop body
\*   btn = page.locator(selector).first
\*   if await btn.count() > 0:
\*       await btn.wait_for(state="visible", timeout=3000)
\*       if await btn.is_enabled():
\*           await btn.click()
\* runs against the page: "absent" (count() == 0), "hidden" (wait_for raises),
\* "disabled" (is_enabled() is False), "click_raises" (visible and enabled, click
\* raises), "ok" (click returns).
ControlOutcome == {"absent", "hidden", "disabled", "click_raises", "ok"}

\* The outcome shows the control visible and enabled.
VisibleEnabled(o) == o \in {"click_raises", "ok"}

\* ------------------------------------------------------------------- Init
\* Result pages explored: empty, a single card, one card below the largest
\* page, and the largest page (above the cap of the candidate loop).
JobCounts == {0, 1, MaxJobs - 1, MaxJobs}

IdleJobLoop ==
    /\ i = 0
    /\ opened = <<>>
    /\ indicator = FALSE
    /\ status = "Unvisited"
    /\ apply_btn = FALSE
    /\ apply_region = "none"
    /\ button_text = ""
    /\ apply_clicked = FALSE
    /\ applied = 0
    /\ result = "none"

IdleModal ==
    /\ modal_open = FALSE
    /\ mstate = "None"
    /\ modal_found = FALSE
    /\ step = 0
    /\ iters = 0
    /\ enabled_seen = {}
    /\ clicked = <<>>
    /\ closes = <<>>
    /\ success = "none"

IdleLocator ==
    /\ chain = <<>>
    /\ fl_result = "none"
    /\ fl_index = -1
    /\ fl_elapsed = 0

IdleWait ==
    /\ waits = <<>>
    /\ wn_result = "none"

IdleFilters ==
    /\ attempted = <<>>
    /\ failed = {}
    /\ fs_result = "none"

IdleRun ==
    /\ browser = "none"
    /\ context = "none"
    /\ screenshot = FALSE
    /\ run_end = "running"

IdleConfirm ==
    /\ dialog = FALSE
    /\ use_panel = FALSE
    /\ cm_call = 0
    /\ polls = 0
    /\ checks = 0
    /\ last_obs = "none"
    /\ tried = <<>>
    /\ threw = <<>>
    /\ dispatched = <<>>
    /\ cm_clicked = FALSE
    /\ cm_result = "none"
    /\ verify_log = <<>>
    /\ caller_saw = "none"

IdlePage ==
    /\ page_filters = {}
    /\ date_selected = FALSE
    /\ easy_toggles = FALSE
    /\ runs = 0
    /\ after_first = {}

IdleFields ==
    /\ form0 = <<>>
    /\ form = <<>>
    /\ rf_i = 0
    /\ writes = {}

IdleCaptcha ==
    /\ captcha_el = FALSE
    /\ captcha_text = FALSE
    /\ captcha_found = FALSE
    /\ waited_time = 0
    /\ cw_polls = 0
    /\ logged_in = "no"
    /\ solved_poll = 0
    /\ cw_result = "none"

IdleInfo ==
    /\ card = <<>>
    /\ job_info = <<>>
    /\ emitted = <<>>

IdleMain ==
    /\ login_button = "none"
    /\ failed_step = "none"
    /\ started = {}

IdleSettle ==
    /\ unsettled = "none"

IdleCheckbox ==
    /\ checked = FALSE
    /\ checked0 = FALSE
    /\ rc_via = "none"

IdleNav ==
    /\ nav_page = "home"
    /\ menu_found = FALSE
    /\ search_successful = FALSE
    /\ location_filled = FALSE
    /\ form_reached = FALSE
    /\ direct_goto = FALSE

IdleMail ==
    /\ smtp_fields = {}
    /\ report_written = FALSE
    /\ email = "none"

IdleHuman ==
    /\ pause_done = FALSE
    /\ autofills = 0
    /\ advances = 0

IdleChip ==
    /\ generic_chip = FALSE
    /\ value_at = 0
    /\ ac_now = 0
    /\ ac_result = "none"

\* find_and_apply_to_first_job(page) on a result page with job_count cards.
InitJobLoop ==
    /\ unit = "find_and_apply_to_first_job"
    /\ pc = "start"
    /\ sel = 0
    /\ job_count \in JobCounts
    /\ IdleJobLoop
    /\ IdleModal
    /\ IdleLocator
    /\ IdleWait
    /\ IdleFilters
    /\ IdleRun
    /\ IdleConfirm
    /\ IdleChip
    /\ IdlePage
    /\ IdleHuman
    /\ IdleFields
    /\ IdleCaptcha
    /\ IdleInfo
    /\ IdleMain
    /\ IdleSettle
    /\ IdleCheckbox
    /\ IdleNav
    /\ IdleMail

\* handle_easy_apply_modal(page) called on a page whose apply control was just
\* clicked: the page may or may not have opened a modal.
InitModal ==
    /\ unit = "handle_easy_apply_modal"
    /\ pc = "modal_find"
    /\ sel = 0
    /\ job_count = 0
    /\ IdleJobLoop
    /\ modal_open \in BOOLEAN
    /\ mstate = "Opened"
    /\ modal_found = FALSE
    /\ step = 0
    /\ iters = 0
    /\ enabled_seen = {}
    /\ clicked = <<>>
    /\ closes = <<>>
    /\ success = "none"
    /\ IdleLocator
    /\ IdleWait
    /\ IdleFilters
    /\ IdleRun
    /\ IdleConfirm
    /\ IdleChip
    /\ IdlePage
    /\ IdleHuman
    /\ IdleFields
    /\ IdleCaptcha
    /\ IdleInfo
    /\ IdleMain
    /\ IdleSettle
    /\ IdleCheckbox
    /\ IdleNav
    /\ IdleMail

\* The locator chains: every assignment of hit or miss to 0..MaxChain selectors.
Chains == UNION {[1..n -> BOOLEAN] : n \in 0..MaxChain}

\* first_locator(page, selectors, timeout) on a page where selector k becomes
\* visible within the timeout iff chain[k].
InitLocator ==
    /\ unit = "first_locator"
    /\ pc = "for"
    /\ sel = 0
    /\ chain \in Chains
    /\ fl_result = "none"
    /\ fl_index = -1
    /\ fl_elapsed = 0
    /\ job_count = 0
    /\ IdleJobLoop
    /\ IdleModal
    /\ IdleWait
    /\ IdleFilters
    /\ IdleRun
    /\ IdleConfirm
    /\ IdleChip
    /\ IdlePage
    /\ IdleHuman
    /\ IdleFields
    /\ IdleCaptcha
    /\ IdleInfo
    /\ IdleMain
    /\ IdleSettle
    /\ IdleCheckbox
    /\ IdleNav
    /\ IdleMail

\* wait_network_idle(page) of automation_clean.py and of automation.py.
InitWait ==
    /\ unit \in {"automation_clean.wait_network_idle", "automation.wait_network_idle"}
    /\ pc = "networkidle"
    /\ sel = 0
    /\ job_count = 0
    /\ IdleJobLoop
    /\ IdleModal
    /\ IdleLocator
    /\ IdleWait
    /\ IdleFilters
    /\ IdleRun
    /\ IdleConfirm
    /\ IdleChip
    /\ IdlePage
    /\ IdleHuman
    /\ IdleFields
    /\ IdleCaptcha
    /\ IdleInfo
    /\ IdleMain
    /\ IdleSettle
    /\ IdleCheckbox
    /\ IdleNav
    /\ IdleMail

\* apply_filters(page) of automation_clean.py and apply_left_nav_filters(page)
\* of automation.py.
InitFilters ==
    /\ \/ unit = "apply_filters" /\ pc = "inspect"
       \/ unit = "apply_left_nav_filters" /\ pc = "department"
    /\ sel = 0
    /\ job_count = 0
    /\ IdleJobLoop
    /\ IdleModal
    /\ IdleLocator
    /\ IdleWait
    /\ IdleFilters
    /\ IdleRun
    /\ IdleConfirm
    /\ IdleChip
    /\ page_filters = {}
    /\ date_selected = FALSE
    /\ easy_toggles \in (IF unit = "apply_filters" THEN BOOLEAN ELSE {FALSE})
    /\ runs = 0
    /\ after_first = {}
    /\ IdleHuman
    /\ IdleFields
    /\ IdleCaptcha
    /\ IdleInfo
    /\ IdleMain
    /\ IdleSettle
    /\ IdleCheckbox
    /\ IdleNav
    /\ IdleMail

\* resume_automation() and continue_from_linkedin_home().
InitRun ==
    /\ \/ unit = "resume_automation" /\ pc = "launch"
       \/ unit = "continue_from_linkedin_home" /\ pc = "connect"
    /\ sel = 0
    /\ job_count = 0
    /\ IdleJobLoop
    /\ IdleModal
    /\ IdleLocator
    /\ IdleWait
    /\ IdleFilters
    /\ IdleRun
    /\ IdleConfirm
    /\ IdleChip
    /\ IdlePage
    /\ IdleHuman
    /\ IdleFields
    /\ IdleCaptcha
    /\ IdleInfo
    /\ IdleMain
    /\ IdleSettle
    /\ IdleCheckbox
    /\ IdleNav
    /\ IdleMail

\* The Apply tail of the Department step of apply_left_nav_filters, after the
\* checkbox was selected: the dialog panel is open (and is the target scope)
\* or the step works in the section container.
InitConfirm ==
    /\ unit = "click_modal_apply_and_wait"
    /\ pc = "confirm_call"
    /\ sel = 0
    /\ job_count = 0
    /\ IdleJobLoop
    /\ IdleModal
    /\ IdleLocator
    /\ IdleWait
    /\ IdleFilters
    /\ IdleRun
    /\ dialog \in BOOLEAN
    /\ use_panel = dialog
    /\ cm_call = 0
    /\ polls = 0
    /\ checks = 0
    /\ last_obs = "none"
    /\ tried = <<>>
    /\ threw = <<>>
    /\ dispatched = <<>>
    /\ cm_clicked = FALSE
    /\ cm_result = "none"
    /\ verify_log = <<>>
    /\ caller_saw = "none"
    /\ IdleChip
    /\ IdlePage
    /\ IdleHuman
    /\ IdleFields
    /\ IdleCaptcha
    /\ IdleInfo
    /\ IdleMain
    /\ IdleSettle
    /\ IdleCheckbox
    /\ IdleNav
    /\ IdleMail

\* The times (ms after the call) at which the page may show the indicator of
\* the selected value: at once, during the second wait, later but within the
\* verification timeout, or not within it.
ValueTimes == {0, ChipWaitTimeout + ChipWaitTimeout \div 2, VerifyTimeout - ChipWaitTimeout,
               2 * VerifyTimeout}

\* assert_chip_applied(text) on a page that may show a chip of another filter.
InitChip ==
    /\ unit = "assert_chip_applied"
    /\ pc = "ac_while"
    /\ sel = 0
    /\ job_count = 0
    /\ IdleJobLoop
    /\ IdleModal
    /\ IdleLocator
    /\ IdleWait
    /\ IdleFilters
    /\ IdleRun
    /\ IdleConfirm
    /\ generic_chip \in BOOLEAN
    /\ value_at \in ValueTimes
    /\ ac_now = 0
    /\ ac_result = "none"
    /\ IdlePage
    /\ IdleHuman
    /\ IdleFields
    /\ IdleCaptcha
    /\ IdleInfo
    /\ IdleMain
    /\ IdleSettle
    /\ IdleCheckbox
    /\ IdleNav
    /\ IdleMail

\* The markup of the fields a form is built from: tag, the two attributes the
\* selectors test, type, and name (or id).
FieldShapes ==
    { [tag |-> "input",    required |-> TRUE,  aria |-> FALSE, type |-> "tel",    name |-> "mobile"],
      [tag |-> "input",    required |-> FALSE, aria |-> TRUE,  type |-> "email",  name |-> ""],
      [tag |-> "input",    required |-> TRUE,  aria |-> TRUE,  type |-> "text",   name |-> "full_name"],
      [tag |-> "input",    required |-> TRUE,  aria |-> FALSE, type |-> "number", name |-> "years_total"],
      [tag |-> "textarea", required |-> TRUE,  aria |-> TRUE,  type |-> "none",   name |-> "summary"],
      [tag |-> "select",   required |-> TRUE,  aria |-> FALSE, type |-> "none",   name |-> "country"],
      [tag |-> "input",    required |-> TRUE,  aria |-> FALSE, type |-> "file",   name |-> "resume"],
      [tag |-> "input",    required |-> FALSE, aria |-> FALSE, type |-> "text",   name |-> "referral"] }

\* What a field holds before the call: nothing, or what the candidate typed.
FieldValues == {"", "typed"}

Fields ==
    { [shape |-> sh, visible |-> v, value |-> x] :
        sh \in FieldShapes, v \in BOOLEAN, x \in FieldValues }

Forms == UNION { [1..n -> Fields] : n \in 0..MaxFields }

\* handle_required_fields(page) on a form of up to MaxFields fields.
InitFields ==
    /\ unit = "handle_required_fields"
    /\ pc = "rf_for"
    /\ sel = 0
    /\ job_count = 0
    /\ IdleJobLoop
    /\ IdleModal
    /\ IdleLocator
    /\ IdleWait
    /\ IdleFilters
    /\ IdleRun
    /\ IdleConfirm
    /\ IdlePage
    /\ IdleHuman
    /\ IdleChip
    /\ form0 \in Forms
    /\ form = form0
    /\ rf_i = 0
    /\ writes = {}
    /\ IdleCaptcha
    /\ IdleInfo
    /\ IdleMain
    /\ IdleSettle
    /\ IdleCheckbox
    /\ IdleNav
    /\ IdleMail

\* wait_for_captcha_completion(page) on a page that may show a CAPTCHA.
InitCaptcha ==
    /\ unit = "wait_for_captcha_completion"
    /\ pc = "cw_detect"
    /\ sel = 0
    /\ job_count = 0
    /\ IdleJobLoop
    /\ IdleModal
    /\ IdleLocator
    /\ IdleWait
    /\ IdleFilters
    /\ IdleRun
    /\ IdleConfirm
    /\ IdlePage
    /\ IdleFields
    /\ IdleHuman
    /\ IdleChip
    /\ captcha_el \in BOOLEAN
    /\ captcha_text \in BOOLEAN
    /\ captcha_found = FALSE
    /\ waited_time = 0
    /\ cw_polls = 0
    /\ logged_in = "no"
    /\ solved_poll = 0
    /\ cw_result = "none"
    /\ IdleInfo
    /\ IdleMain
    /\ IdleSettle
    /\ IdleCheckbox
    /\ IdleNav
    /\ IdleMail

\* What `await elem.text_content()` does for one metadata element of a card:
\* it raises (no such element, bad selector), or returns None or a text.
TextOutcomes == {"raises", "None", "  ", " Acme "}

InfoFields == {"title", "company", "location"}

\* The keys of the job_info dict.
JobInfoKeys == InfoFields \cup {"link"}

\* The metadata part of one pass of the candidate loop, on a card whose three
\* elements behave independently.
InitInfo ==
    /\ unit = "job_info"
    /\ pc = "info_title"
    /\ sel = 0
    /\ job_count = 0
    /\ IdleJobLoop
    /\ IdleModal
    /\ IdleLocator
    /\ IdleWait
    /\ IdleFilters
    /\ IdleRun
    /\ IdleConfirm
    /\ IdlePage
    /\ IdleFields
    /\ IdleCaptcha
    /\ IdleHuman
    /\ IdleChip
    /\ card \in [InfoFields -> TextOutcomes]
    /\ job_info = [f \in JobInfoKeys |-> ""]
    /\ emitted = <<>>
    /\ IdleMain
    /\ IdleSettle
    /\ IdleCheckbox
    /\ IdleNav
    /\ IdleMail

\* The fields of SMTPConfig that main_async tests before sending.
SmtpFields == {"mail_from", "mail_to", "username", "password"}

\* main_async(url_override, headful, timeout_ms) of the command line.
InitMain ==
    /\ unit = "main_async"
    /\ pc = "launch"
    /\ sel = 0
    /\ job_count = 0
    /\ IdleJobLoop
    /\ IdleModal
    /\ IdleLocator
    /\ IdleWait
    /\ IdleFilters
    /\ IdleRun
    /\ IdleConfirm
    /\ IdlePage
    /\ IdleFields
    /\ IdleCaptcha
    /\ IdleInfo
    /\ IdleMain
    /\ IdleHuman
    /\ IdleChip
    /\ IdleSettle
    /\ IdleCheckbox
    /\ IdleNav
    /\ smtp_fields \in SUBSET SmtpFields
    /\ report_written = FALSE
    /\ email = "none"

\* robust_check_checkbox(scope, name_pattern) on a checkbox that is selected
\* already or not.
InitCheckbox ==
    /\ unit = "robust_check_checkbox"
    /\ pc = "rc_role"
    /\ sel = 0
    /\ job_count = 0
    /\ IdleJobLoop
    /\ IdleModal
    /\ IdleLocator
    /\ IdleWait
    /\ IdleFilters
    /\ IdleRun
    /\ IdleConfirm
    /\ IdlePage
    /\ IdleFields
    /\ IdleCaptcha
    /\ IdleInfo
    /\ IdleMain
    /\ IdleSettle
    /\ IdleHuman
    /\ IdleChip
    /\ checked \in BOOLEAN
    /\ checked0 = checked
    /\ rc_via = "none"
    /\ IdleNav
    /\ IdleMail

\* navigate_to_jobs(page), called on the LinkedIn home page.
InitNav ==
    /\ unit = "navigate_to_jobs"
    /\ pc = "nj_menu"
    /\ sel = 0
    /\ job_count = 0
    /\ IdleJobLoop
    /\ IdleModal
    /\ IdleLocator
    /\ IdleWait
    /\ IdleFilters
    /\ IdleRun
    /\ IdleConfirm
    /\ IdlePage
    /\ IdleFields
    /\ IdleCaptcha
    /\ IdleInfo
    /\ IdleMain
    /\ IdleSettle
    /\ IdleCheckbox
    /\ IdleNav
    /\ IdleHuman
    /\ IdleChip
    /\ IdleMail

Init ==
    \/ InitNav
    \/ InitCheckbox
    \/ InitMain
    \/ InitInfo
    \/ InitCaptcha
    \/ InitFields
    \/ InitChip
    \/ InitConfirm
    \/ InitJobLoop
    \/ InitModal
    \/ InitLocator
    \/ InitWait
    \/ InitFilters
    \/ InitRun

\* ------------------------------------------- find_and_apply_to_first_job
InJobLoop == unit = "find_and_apply_to_first_job"

\* wait_network_idle, sleep, job_cards.count(): the count is outside every try.
find_and_apply_start ==
    /\ InJobLoop /\ pc = "start"
    /\ \/ pc' = "for"
       \/ pc' = "raised"
    /\ UNCHANGED <<unit, outsideJob, sel, jobVars, modalVars>>

\* A candidate loop over every card of the page: range(job_count).
LoopBound_uncapped == job_count

\* The bound of the candidate loop.
LoopBound == Min(job_count, MaxCandidates)

\* for i in range(min(job_count, 10)): the next card, or the sentinel result.
find_and_apply_for ==
    /\ InJobLoop /\ pc = "for"
    /\ IF i < LoopBound
         THEN /\ pc' = "open"
              /\ \E ind \in BOOLEAN : indicator' = ind
              /\ status' = "Unvisited"
              /\ apply_btn' = FALSE
              /\ apply_region' = "none"
              /\ button_text' = ""
              /\ apply_clicked' = FALSE
              /\ UNCHANGED result
         ELSE /\ pc' = "returned"
              /\ result' = "No available jobs"
              /\ UNCHANGED <<indicator, status, apply_btn, apply_region, button_text,
                             apply_clicked>>
    /\ UNCHANGED <<unit, outsideJob, sel, job_count, i, opened, applied, modalVars>>

\* A failure of one candidate that is raised out of the loop.
NextCandidate_raises(st) ==
    /\ status' = st
    /\ pc' = "raised"
    /\ sel' = 0
    /\ UNCHANGED i

\* `continue`: the loop moves to the next index with the card's final status.
NextCandidate(st) ==
    /\ status' = st
    /\ i' = i + 1
    /\ pc' = "for"
    /\ sel' = 0

\* Field extraction (each in its own try), then job_card.click(),
\* wait_network_idle (so nothing is left unsettled), sleep and the
\* details-panel wait (caught). A raising click reaches the outer except: continue.
find_and_apply_open ==
    /\ InJobLoop /\ pc = "open"
    /\ opened' = Append(opened, i)
    /\ \/ /\ pc' = "scan_apply"
          /\ sel' = 0
          /\ unsettled' = "none"
          /\ UNCHANGED <<i, status>>
       \/ /\ NextCandidate("Failed")
          /\ UNCHANGED unsettled
    /\ UNCHANGED <<unit, outsideSteps, humanVars, job_count, indicator, apply_btn, apply_region,
                   button_text, apply_clicked, applied, result, modalVars>>

\* The entries of apply_button_selectors (1-based) that name no apply-button
\* class, job-details container or job-details attribute: a button by its
\* aria-label and text, or by its text and an icon inside it.
TextOnlySelectors == {21, 22, 27, 28, 29}

\* Where the first element of page.locator(selector) can sit: the locator is
\* page-wide, so a text-only selector also matches a filter or global control
\* with the same text.
MatchRegions(k) ==
    IF k \in TextOnlySelectors THEN {"job-detail", "global"} ELSE {"job-detail"}

\* for selector in apply_button_selectors: the first element that is present,
\* visible and enabled becomes apply_btn, with its text_content() or "".
find_and_apply_scan ==
    /\ InJobLoop /\ pc = "scan_apply"
    /\ IF sel < NumApplySelectors
         THEN \/ /\ sel' = sel + 1
                 /\ UNCHANGED <<pc, apply_btn, apply_region, button_text>>
              \/ /\ apply_btn' = TRUE
                 /\ \E r \in MatchRegions(sel + 1) : apply_region' = r
                 /\ \E t \in {"", "apply", "other"} : button_text' = t
                 /\ pc' = "check_btn"
                 /\ sel' = 0
         ELSE /\ pc' = "check_btn"
              /\ sel' = 0
              /\ UNCHANGED <<apply_btn, apply_region, button_text>>
    /\ UNCHANGED <<unit, outsideJob, job_count, i, opened, indicator, status, apply_clicked,
                   applied, result, modalVars>>

\* A check that takes any matched element for the apply control.
ApplyControlResolved_any_element == apply_btn

\* if apply_btn and button_text: if any(keyword in button_text.lower() ...).
ApplyControlResolved == apply_btn /\ button_text # "" /\ button_text = "apply"

find_and_apply_check ==
    /\ InJobLoop /\ pc = "check_btn"
    /\ IF ApplyControlResolved
         THEN /\ pc' = "apply_click"
              /\ status' = "Applying"
              /\ UNCHANGED <<i, sel>>
         ELSE NextCandidate("NoApplyControl")
    /\ UNCHANGED <<unit, outsideJob, job_count, opened, indicator, apply_btn, apply_region,
                   button_text, apply_clicked, applied, result, modalVars>>

\* scroll_into_view_if_needed(), click(), sleep(3) - no wait_network_idle -
\* then handle_easy_apply_modal.
\* Either call raising reaches `except Exception as e: continue`.
find_and_apply_click ==
    /\ InJobLoop /\ pc = "apply_click"
    /\ \/ /\ apply_clicked' = TRUE
          /\ \E m \in BOOLEAN : modal_open' = (modal_open \/ m)
          /\ mstate' = "Opened"
          /\ modal_found' = FALSE
          /\ step' = 0
          /\ iters' = 0
          /\ enabled_seen' = {}
          /\ clicked' = <<>>
          /\ closes' = <<>>
          /\ success' = "none"
          /\ pc' = "modal_find"
          /\ sel' = 0
          /\ unsettled' = "apply click"
          /\ UNCHANGED <<i, status>>
       \/ /\ NextCandidate("Failed")
          /\ UNCHANGED <<apply_clicked, modalVars, unsettled>>
    /\ pause_done' = FALSE
    /\ autofills' = 0
    /\ advances' = 0
    /\ UNCHANGED <<unit, outsideSteps, job_count, opened, indicator, apply_btn, apply_region,
                   button_text, applied, result>>

\* The locals of a finished handle_easy_apply_modal call are gone once its
\* return value is taken; the page keeps its modal, if any.
ModalLocalsGone ==
    /\ mstate' = "None"
    /\ modal_found' = FALSE
    /\ step' = 0
    /\ iters' = 0
    /\ enabled_seen' = {}
    /\ clicked' = <<>>
    /\ closes' = <<>>
    /\ success' = "none"
    /\ pause_done' = FALSE
    /\ autofills' = 0
    /\ advances' = 0

\* success = await handle_easy_apply_modal(page); return job_info or continue.
find_and_apply_after_modal ==
    /\ InJobLoop /\ pc = "after_modal"
    /\ IF success = "True"
         THEN /\ status' = "Applied"
              /\ applied' = applied + 1
              /\ result' = "job_info"
              /\ pc' = "returned"
              /\ UNCHANGED <<i, sel>>
         ELSE /\ NextCandidate("Failed")
              /\ UNCHANGED <<applied, result>>
    /\ ModalLocalsGone
    /\ UNCHANGED <<unit, outsideModal, job_count, opened, indicator, apply_btn, apply_region,
                   button_text, apply_clicked, modal_open>>

\* ----------------------------------------------- handle_easy_apply_modal
InModal == unit \in {"find_and_apply_to_first_job", "handle_easy_apply_modal"}

\* A modal-less branch that goes on to the human pause and the stepping loop.
NoModalFound_pauses ==
    /\ mstate' = "AwaitingHuman"
    /\ pc' = "modal_pause"
    /\ sel' = 0
    /\ UNCHANGED <<modal_found, success>>

\* if not modal_found: sleep(2); return True
NoModalFound ==
    /\ mstate' = "Closed"
    /\ success' = "True"
    /\ pc' = "after_modal"
    /\ sel' = 0
    /\ UNCHANGED modal_found

\* for selector in modal_selectors: count() > 0 and wait_for(visible) finds the
\* modal; when no selector does, the application is taken to be instant.
handle_easy_apply_modal_find ==
    /\ InModal /\ pc = "modal_find"
    /\ IF sel < NumModalSelectors
         THEN \/ /\ sel' = sel + 1
                 /\ UNCHANGED <<pc, modal_found, mstate, success>>
              \/ /\ modal_open
                 /\ modal_found' = TRUE
                 /\ mstate' = "AwaitingHuman"
                 /\ pc' = "modal_pause"
                 /\ sel' = 0
                 /\ UNCHANGED success
         ELSE NoModalFound
    /\ UNCHANGED <<unit, outsideJob, jobVars, modal_open, step, iters, enabled_seen, clicked, closes>>

\* A session that goes on to the stepping loop without the sleep.
HumanPause_skipped == UNCHANGED pause_done

\* await asyncio.sleep(30)
HumanPause == pause_done' = TRUE

\* await asyncio.sleep(30); max_steps = 10; step = 0
handle_easy_apply_modal_pause ==
    /\ InModal /\ pc = "modal_pause"
    /\ HumanPause
    /\ mstate' = "Stepping"
    /\ step' = 0
    /\ pc' = "modal_while"
    /\ UNCHANGED <<unit, outsideModal, autofills, advances, sel, jobVars, modal_open, modal_found, iters, enabled_seen,
                   clicked, closes, success>>

\* A loop guard that lets one step too many through.
StepsLeft_off_by_one == step <= max_steps

\* while step < max_steps
StepsLeft == step < max_steps

\* while step < max_steps: sleep, handle_required_fields, then the Review scan.
handle_easy_apply_modal_while ==
    /\ InModal /\ pc = "modal_while"
    /\ IF StepsLeft
         THEN /\ iters' = iters + 1
              /\ autofills' = autofills + 1
              /\ enabled_seen' = {}
              /\ clicked' = <<>>
              /\ pc' = "modal_review"
              /\ sel' = 0
              /\ UNCHANGED closes
         ELSE /\ pc' = "modal_close"
              /\ sel' = 0
              /\ closes' = Append(closes, "normal")
              /\ UNCHANGED <<iters, autofills, enabled_seen, clicked>>
    /\ UNCHANGED <<unit, outsideModal, pause_done, advances, jobVars, modal_open, mstate, modal_found, step, success>>

\* One selector of one control chain: the page's outcome o for it. A click that
\* returns ends the scan; every other outcome moves on to the next selector.
TrySelector(ctrl, o) ==
    /\ enabled_seen' = IF VisibleEnabled(o) THEN enabled_seen \cup {ctrl} ELSE enabled_seen
    /\ clicked' = IF o = "ok" THEN Append(clicked, ctrl) ELSE clicked
    /\ advances' = IF o = "ok" /\ ctrl \in {"Review", "Next"} THEN advances + 1 ELSE advances

\* A Review or Next click that leaves the counter as it is.
StepCounted_not == UNCHANGED step

\* step += 1 after a Review or Next click that returned
StepCounted == step' = step + 1

\* for selector in review_selectors: click, step += 1, continue.
handle_easy_apply_modal_review ==
    /\ InModal /\ pc = "modal_review"
    /\ IF sel < NumReviewSelectors
         THEN \E o \in ControlOutcome :
                /\ TrySelector("Review", o)
                /\ IF o = "ok"
                     THEN /\ StepCounted
                          /\ pc' = "modal_while"
                          /\ sel' = 0
                     ELSE /\ sel' = sel + 1
                          /\ UNCHANGED <<step, pc>>
         ELSE /\ pc' = "modal_submit"
              /\ sel' = 0
              /\ UNCHANGED <<step, enabled_seen, clicked, advances>>
    /\ UNCHANGED <<unit, outsideModal, pause_done, autofills, jobVars, modal_open, mstate, modal_found, iters, closes, success>>

\* A Submit click that counts as a step and loops like Review and Next.
SubmitClicked_counts_step ==
    /\ mstate' = "Submitting"
    /\ step' = step + 1
    /\ pc' = "modal_while"
    /\ sel' = 0
    /\ UNCHANGED closes

\* submit_clicked = True; break: the loop ends with the counter as it is.
SubmitClicked ==
    /\ mstate' = "Submitting"
    /\ pc' = "modal_close"
    /\ sel' = 0
    /\ closes' = Append(closes, "normal")
    /\ UNCHANGED step

\* for selector in submit_application_selectors: click, break.
handle_easy_apply_modal_submit ==
    /\ InModal /\ pc = "modal_submit"
    /\ IF sel < NumSubmitSelectors
         THEN \E o \in ControlOutcome :
                /\ TrySelector("Submit", o)
                /\ IF o = "ok"
                     THEN /\ SubmitClicked
                          /\ \E m \in BOOLEAN : modal_open' = (modal_open /\ m)
                     ELSE /\ sel' = sel + 1
                          /\ UNCHANGED <<mstate, modal_open, pc, closes, step>>
         ELSE /\ pc' = "modal_next"
              /\ sel' = 0
              /\ UNCHANGED <<mstate, modal_open, enabled_seen, clicked, advances, closes, step>>
    /\ UNCHANGED <<unit, outsideModal, pause_done, autofills, jobVars, modal_found, iters, success>>

\* for selector in next_button_selectors: click, step += 1, continue; with no
\* control clicked at all the loop is left by `break`.
\* A loop exit that goes straight to the job details, leaving the overlay.
NoControlFound_skips_cleanup ==
    /\ pc' = "modal_details"
    /\ sel' = 0
    /\ UNCHANGED <<step, closes>>

\* No Review, Submit or Next control: break, then close_application_modal.
NoControlFound ==
    /\ pc' = "modal_close"
    /\ sel' = 0
    /\ closes' = Append(closes, "normal")
    /\ UNCHANGED step

handle_easy_apply_modal_next ==
    /\ InModal /\ pc = "modal_next"
    /\ IF sel < NumNextSelectors
         THEN \E o \in ControlOutcome :
                /\ TrySelector("Next", o)
                /\ IF o = "ok"
                     THEN /\ StepCounted
                          /\ pc' = "modal_while"
                          /\ sel' = 0
                          /\ UNCHANGED closes
                     ELSE /\ sel' = sel + 1
                          /\ UNCHANGED <<step, pc, closes>>
         ELSE /\ NoControlFound
              /\ UNCHANGED <<enabled_seen, clicked, advances>>
    /\ UNCHANGED <<unit, outsideModal, pause_done, autofills, jobVars, modal_open, mstate, modal_found, iters, success>>

\* After close_application_modal: the normal path goes on to the job details,
\* the except handler returns False.
AfterClose ==
    IF mstate = "Failed"
      THEN /\ success' = "False"
           /\ pc' = "after_modal"
      ELSE /\ pc' = "modal_details"
           /\ UNCHANGED success

\* close_application_modal: the first close control that is present, becomes
\* visible and whose click returns closes the overlay; nothing is raised and
\* nothing is checked afterwards.
close_application_modal ==
    /\ InModal /\ pc = "modal_close"
    /\ IF sel < NumCloseSelectors
         THEN \/ /\ sel' = sel + 1
                 /\ UNCHANGED <<pc, modal_open, success>>
              \/ /\ modal_open' = FALSE
                 /\ AfterClose
                 /\ sel' = 0
         ELSE /\ AfterClose
              /\ sel' = 0
              /\ UNCHANGED modal_open
    /\ UNCHANGED <<unit, outsideJob, jobVars, mstate, modal_found, step, iters, enabled_seen,
                   clicked, closes>>

\* A handler that returns False at once, leaving the overlay as it is.
ExceptHandler_no_cleanup ==
    /\ mstate' = "Failed"
    /\ success' = "False"
    /\ pc' = "after_modal"
    /\ sel' = 0
    /\ UNCHANGED closes

\* except Exception as e: close_application_modal(page); return False
ExceptHandler ==
    /\ mstate' = "Failed"
    /\ closes' = Append(closes, "handler")
    /\ pc' = "modal_close"
    /\ sel' = 0
    /\ UNCHANGED success

\* extract_job_details (catches everything) and print_job_details (writes
\* non-ASCII text to the console, which raises UnicodeEncodeError on a console
\* that cannot encode it), then return True.
handle_easy_apply_modal_details ==
    /\ InModal /\ pc = "modal_details"
    /\ \/ /\ mstate' = "Closed"
          /\ success' = "True"
          /\ pc' = "after_modal"
          /\ UNCHANGED <<sel, closes>>
       \/ ExceptHandler
    /\ UNCHANGED <<unit, outsideJob, jobVars, modal_open, modal_found, step, iters, enabled_seen,
                   clicked>>

\* ---------------------------------------------------------- first_locator
\* A resolver that keeps scanning while a later selector would match as well,
\* and so returns the last match of the chain.
first_locator_last_match ==
    /\ unit = "first_locator" /\ pc = "for"
    /\ IF sel < Len(chain)
         THEN IF chain[sel + 1] /\ ~(\E k \in (sel + 2)..Len(chain) : chain[k])
                THEN /\ fl_result' = "found"
                     /\ fl_index' = sel
                     /\ pc' = "returned"
                     /\ UNCHANGED <<sel, fl_elapsed>>
                ELSE /\ sel' = sel + 1
                     /\ fl_elapsed' = fl_elapsed + DefaultLocatorTimeout
                     /\ UNCHANGED <<pc, fl_result, fl_index>>
         ELSE /\ fl_result' = "RuntimeError"
              /\ pc' = "raised"
              /\ UNCHANGED <<sel, fl_index, fl_elapsed>>
    /\ UNCHANGED <<unit, chain, outsideLocator>>

\* for sel in selectors: the element of the first selector whose
\* wait_for(state="visible") returns is returned; a wait that raises moves on
\* to the next selector; after the last one RuntimeError is raised. A wait
\* that times out has taken `timeout` ms; nothing bounds their sum.
first_locator ==
    /\ unit = "first_locator" /\ pc = "for"
    /\ IF sel < Len(chain)
         THEN IF chain[sel + 1]
                THEN /\ fl_result' = "found"
                     /\ fl_index' = sel
                     /\ pc' = "returned"
                     /\ UNCHANGED <<sel, fl_elapsed>>
                ELSE /\ sel' = sel + 1
                     /\ fl_elapsed' = fl_elapsed + DefaultLocatorTimeout
                     /\ UNCHANGED <<pc, fl_result, fl_index>>
         ELSE /\ fl_result' = "RuntimeError"
              /\ pc' = "raised"
              /\ UNCHANGED <<sel, fl_index, fl_elapsed>>
    /\ UNCHANGED <<unit, chain, outsideLocator>>

\* ------------------------------------------------------ wait_network_idle
\* automation_clean.py: wait_for_load_state("networkidle", timeout); when it
\* raises, wait_for_load_state("domcontentloaded", timeout=5000); when that
\* raises too, pass.
wait_network_idle_clean ==
    /\ unit = "automation_clean.wait_network_idle"
    /\ \/ /\ pc = "networkidle"
          /\ waits' = Append(waits, <<"networkidle", DefaultSettleTimeout>>)
          /\ \/ pc' = "returned" /\ wn_result' = "returned"
             \/ pc' = "domcontentloaded" /\ UNCHANGED wn_result
       \/ /\ pc = "domcontentloaded"
          /\ waits' = Append(waits, <<"domcontentloaded", FallbackSettleTimeout>>)
          /\ pc' = "returned"
          /\ wn_result' = "returned"
    /\ UNCHANGED <<unit, sel, outsideWait>>

\* automation.py: await page.wait_for_load_state("networkidle"), with the
\* driver's default timeout and nothing around it.
wait_network_idle ==
    /\ unit = "automation.wait_network_idle"
    /\ pc = "networkidle"
    /\ waits' = Append(waits, <<"networkidle", DriverDefaultTimeout>>)
    /\ \/ pc' = "returned" /\ wn_result' = "returned"
       \/ pc' = "raised" /\ wn_result' = "raised"
    /\ UNCHANGED <<unit, sel, outsideWait>>

\* ---------------------------------------------------------- apply_filters
InApplyFilters == unit = "apply_filters"

\* Step 2 begins: print, try, the scan for the Easy Apply filter control.
EnterEasyApply ==
    /\ attempted' = Append(attempted, "Easy Apply")
    /\ pc' = "easy_find"
    /\ sel' = 0
    /\ UNCHANGED fs_result

\* A Date Posted step whose failure is raised out of the sequencer.
DatePostedFailed_raises ==
    /\ failed' = failed \cup {"Date Posted"}
    /\ fs_result' = "raised"
    /\ pc' = "raised"
    /\ sel' = 0
    /\ UNCHANGED attempted

\* Step 1 ends without its filter applied: the control or the Show results
\* button was not found (a print), or a click raised (except Exception: a
\* print). The flow goes on to step 2.
DatePostedFailed ==
    /\ failed' = failed \cup {"Date Posted"}
    /\ EnterEasyApply

\* The page after easy_apply.click() returned: the click is made whatever the
\* control's state, so a toggle that was on is switched off.
EasyApplyClicked ==
    IF easy_toggles /\ "Easy Apply" \in page_filters
      THEN page_filters \ {"Easy Apply"}
      ELSE page_filters \cup {"Easy Apply"}

\* apply_filters returns (after the no-op debug_screenshot) with the page
\* showing the filters pf.
FiltersReturned(pf) ==
    /\ fs_result' = "returned"
    /\ pc' = "returned"
    /\ runs' = runs + 1
    /\ after_first' = IF runs = 0 THEN pf ELSE after_first

\* The button inspection (caught as a whole), then step 1 begins.
apply_filters_inspect ==
    /\ InApplyFilters /\ pc = "inspect"
    /\ attempted' = Append(attempted, "Date Posted")
    /\ pc' = "date_find"
    /\ sel' = 0
    /\ UNCHANGED <<unit, failed, fs_result, pageVars, outsideFilters>>

\* for selector in date_filter_selectors: the first element with count() > 0.
apply_filters_date_find ==
    /\ InApplyFilters /\ pc = "date_find"
    /\ IF sel < NumDateFilterSelectors
         THEN \/ /\ sel' = sel + 1
                 /\ UNCHANGED <<pc, attempted, failed, fs_result>>
              \/ /\ pc' = "date_click"
                 /\ sel' = 0
                 /\ UNCHANGED <<attempted, failed, fs_result>>
         ELSE DatePostedFailed
    /\ UNCHANGED <<unit, pageVars, outsideFilters>>

\* await date_filter.click(): a click that raises ends the step in its except.
apply_filters_date_click ==
    /\ InApplyFilters /\ pc = "date_click"
    /\ \/ /\ pc' = "date_option"
          /\ sel' = 0
          /\ UNCHANGED <<attempted, failed, fs_result>>
       \/ DatePostedFailed
    /\ UNCHANGED <<unit, pageVars, outsideFilters>>

\* for selector in past_24_selectors: click the first option found; a missing
\* option is printed and the step goes on to the Show results button.
apply_filters_date_option ==
    /\ InApplyFilters /\ pc = "date_option"
    /\ IF sel < NumPast24Selectors
         THEN \/ /\ sel' = sel + 1
                 /\ UNCHANGED <<pc, date_selected>>
              \/ /\ pc' = "date_show"
                 /\ sel' = 0
                 /\ date_selected' = TRUE
         ELSE /\ pc' = "date_show"
              /\ sel' = 0
              /\ UNCHANGED date_selected
    /\ UNCHANGED <<unit, attempted, failed, fs_result, page_filters, easy_toggles, runs,
                   after_first, outsideFilters>>

\* for selector in show_results_selectors: click the first button found, then
\* wait_network_idle and sleep; step 2 follows either way.
apply_filters_date_show ==
    /\ InApplyFilters /\ pc = "date_show"
    /\ IF sel < NumShowResultsSelectors
         THEN \/ /\ sel' = sel + 1
                 /\ UNCHANGED <<pc, attempted, failed, fs_result, page_filters>>
              \/ /\ EnterEasyApply
                 /\ page_filters' = IF date_selected
                                      THEN page_filters \cup {"Past 24 hours"}
                                      ELSE page_filters
                 /\ UNCHANGED failed
         ELSE /\ DatePostedFailed
              /\ UNCHANGED page_filters
    /\ UNCHANGED <<unit, date_selected, easy_toggles, runs, after_first, outsideFilters>>

\* for selector in easy_apply_selectors: the first element with count() > 0;
\* without one the step prints and the function returns.
apply_filters_easy_find ==
    /\ InApplyFilters /\ pc = "easy_find"
    /\ IF sel < NumEasyApplySelectors
         THEN \/ /\ sel' = sel + 1
                 /\ UNCHANGED <<pc, failed, fs_result, runs, after_first>>
              \/ /\ pc' = "easy_click"
                 /\ sel' = 0
                 /\ UNCHANGED <<failed, fs_result, runs, after_first>>
         ELSE /\ failed' = failed \cup {"Easy Apply"}
              /\ FiltersReturned(page_filters)
              /\ sel' = 0
    /\ UNCHANGED <<unit, attempted, page_filters, date_selected, easy_toggles,
                   outsideFilters>>

\* await easy_apply.click(): a click that raises is caught and printed.
apply_filters_easy_click ==
    /\ InApplyFilters /\ pc = "easy_click"
    /\ \/ /\ page_filters' = EasyApplyClicked
          /\ UNCHANGED failed
       \/ /\ failed' = failed \cup {"Easy Apply"}
          /\ UNCHANGED page_filters
    /\ FiltersReturned(page_filters')
    /\ UNCHANGED <<unit, sel, attempted, date_selected, easy_toggles, outsideFilters>>

\* apply_filters is called again on the same page, as a second run of the
\* sequence does through continue_from_linkedin_home's existing session.
apply_filters_again ==
    /\ InApplyFilters /\ pc = "returned"
    /\ runs < MaxRuns
    /\ attempted' = <<>>
    /\ failed' = {}
    /\ fs_result' = "none"
    /\ pc' = "inspect"
    /\ sel' = 0
    /\ UNCHANGED <<unit, pageVars, outsideFilters>>

\* ------------------------------------------------- apply_left_nav_filters
InLeftNavFilters == unit = "apply_left_nav_filters"

\* One step of apply_left_nav_filters: its try body runs to its end or raises
\* at one of its driver calls, and `except Exception: pass` follows.
LeftNavStep(name, next) ==
    /\ attempted' = Append(attempted, name)
    /\ \/ UNCHANGED failed
       \/ failed' = failed \cup {name}
    /\ pc' = next
    /\ fs_result' = IF next = "returned" THEN "returned" ELSE fs_result

\* Department: open the section, search "Product Management", check it, Apply.
apply_left_nav_filters_department ==
    /\ InLeftNavFilters /\ pc = "department"
    /\ LeftNavStep("Department", "location")
    /\ UNCHANGED <<unit, sel, pageVars, outsideFilters>>

\* Location: View More, check Bengaluru, Apply, verify the chip.
apply_left_nav_filters_location ==
    /\ InLeftNavFilters /\ pc = "location"
    /\ LeftNavStep("Location", "freshness")
    /\ UNCHANGED <<unit, sel, pageVars, outsideFilters>>

\* Freshness: the dropdown and "Last 1 day"; on failure the radio fallback,
\* itself inside try/except.
apply_left_nav_filters_freshness ==
    /\ InLeftNavFilters /\ pc = "freshness"
    /\ LeftNavStep("Freshness", "returned")
    /\ UNCHANGED <<unit, sel, pageVars, outsideFilters>>

\* --------------------------------- launch_browser and resume_automation
InResume == unit = "resume_automation"

\* The ways one awaited operation of a run can end: it returns, it raises an
\* Exception, or the interrupt (KeyboardInterrupt, or the CancelledError that
\* asyncio.run delivers for it) is raised at it.
AwaitOutcome == {"ok", "exception", "interrupt"}

\* How the run ends when outcome o leaves the function.
EndAs(o) == IF o = "interrupt" THEN "interrupted" ELSE "exception"

InMain == unit = "main_async"

\* The callers of `async with launch_browser(...)`.
InLaunch == InResume \/ InMain

\* Where the body of the caller's `async with` starts.
FirstStep == IF InMain THEN "open_home" ELSE "page"

\* async_playwright() and p.chromium.launch(...).
launch_browser_launch ==
    /\ InLaunch /\ pc = "launch"
    /\ \E o \in AwaitOutcome :
         IF o = "ok"
           THEN /\ browser' = "open"
                /\ pc' = "new_context"
                /\ UNCHANGED run_end
           ELSE /\ run_end' = EndAs(o)
                /\ pc' = "ended"
                /\ UNCHANGED browser
    /\ UNCHANGED <<unit, sel, context, screenshot, outsideRun>>

\* context = await browser.new_context(...): before the try of launch_browser.
launch_browser_new_context ==
    /\ InLaunch /\ pc = "new_context"
    /\ \E o \in AwaitOutcome :
         IF o = "ok"
           THEN /\ context' = "open"
                /\ pc' = FirstStep
                /\ UNCHANGED run_end
           ELSE /\ run_end' = EndAs(o)
                /\ pc' = "ended"
                /\ UNCHANGED context
    /\ UNCHANGED <<unit, sel, browser, screenshot, outsideRun>>

\* new_page, goto, sleep: inside the `async with`, outside the try of
\* resume_automation.
resume_automation_page ==
    /\ InResume /\ pc = "page"
    /\ \E o \in AwaitOutcome :
         IF o = "ok"
           THEN /\ pc' = "work"
                /\ UNCHANGED run_end
           ELSE /\ run_end' = EndAs(o)
                /\ pc' = "finally_context"
    /\ UNCHANGED <<unit, sel, browser, context, screenshot, outsideRun>>

\* try: navigate_to_jobs, apply_filters, find_and_apply_to_first_job,
\* write_excel_report. `except Exception` does not catch the interrupt.
resume_automation_work ==
    /\ InResume /\ pc = "work"
    /\ \E o \in AwaitOutcome :
         CASE o = "ok" -> /\ run_end' = "returned"
                          /\ pc' = "finally_context"
           [] o = "exception" -> /\ pc' = "handler"
                                 /\ UNCHANGED run_end
           [] o = "interrupt" -> /\ run_end' = "interrupted"
                                 /\ pc' = "finally_context"
    /\ UNCHANGED <<unit, sel, browser, context, screenshot, outsideRun>>

\* except Exception: page.screenshot(...), input().
resume_automation_handler ==
    /\ InResume /\ pc = "handler"
    /\ \E o \in AwaitOutcome :
         IF o = "ok"
           THEN /\ screenshot' = TRUE
                /\ run_end' = "returned"
           ELSE /\ run_end' = EndAs(o)
                /\ UNCHANGED screenshot
    /\ pc' = "finally_context"
    /\ UNCHANGED <<unit, sel, browser, context, outsideRun>>

\* finally: await context.close() - when it does not return, browser.close()
\* is not reached.
launch_browser_finally_context ==
    /\ InLaunch /\ pc = "finally_context"
    /\ \E o \in AwaitOutcome :
         IF o = "ok"
           THEN /\ context' = "closed"
                /\ pc' = "finally_browser"
                /\ UNCHANGED run_end
           ELSE /\ run_end' = EndAs(o)
                /\ pc' = "ended"
                /\ UNCHANGED context
    /\ UNCHANGED <<unit, sel, browser, screenshot, outsideRun>>

\* finally: await browser.close().
launch_browser_finally_browser ==
    /\ InLaunch /\ pc = "finally_browser"
    /\ \E o \in AwaitOutcome :
         IF o = "ok"
           THEN /\ browser' = "closed"
                /\ UNCHANGED run_end
           ELSE /\ run_end' = EndAs(o)
                /\ UNCHANGED browser
    /\ pc' = "ended"
    /\ UNCHANGED <<unit, sel, context, screenshot, outsideRun>>

\* -------------------------------------------- continue_from_linkedin_home
InContinue == unit = "continue_from_linkedin_home"

\* connect_over_cdp, then the first context and page of the browser, or new ones.
continue_from_linkedin_home_connect ==
    /\ InContinue /\ pc = "connect"
    /\ \E o \in AwaitOutcome :
         IF o = "ok"
           THEN /\ browser' = "open"
                /\ context' = "open"
                /\ pc' = "work"
                /\ UNCHANGED run_end
           ELSE /\ run_end' = EndAs(o)
                /\ pc' = "ended"
                /\ UNCHANGED <<browser, context>>
    /\ UNCHANGED <<unit, sel, screenshot, outsideRun>>

\* try: navigate_to_jobs, apply_filters, find_and_apply_to_first_job,
\* write_excel_report. The interrupt is no Exception: it leaves the function.
continue_from_linkedin_home_work ==
    /\ InContinue /\ pc = "work"
    /\ \E o \in AwaitOutcome :
         CASE o = "ok" -> /\ pc' = "keep_open"
                          /\ UNCHANGED run_end
           [] o = "exception" -> /\ pc' = "handler"
                                 /\ UNCHANGED run_end
           [] o = "interrupt" -> /\ run_end' = "interrupted"
                                 /\ pc' = "ended"
    /\ UNCHANGED <<unit, sel, browser, context, screenshot, outsideRun>>

\* except Exception: page.screenshot(...).
continue_from_linkedin_home_handler ==
    /\ InContinue /\ pc = "handler"
    /\ \E o \in AwaitOutcome :
         IF o = "ok"
           THEN /\ screenshot' = TRUE
                /\ pc' = "keep_open"
                /\ UNCHANGED run_end
           ELSE /\ run_end' = EndAs(o)
                /\ pc' = "ended"
                /\ UNCHANGED screenshot
    /\ UNCHANGED <<unit, sel, browser, context, outsideRun>>

\* while True: await asyncio.sleep(1), left only by the interrupt. Raised as
\* KeyboardInterrupt it is caught and browser.close() is awaited (which
\* disposes of the browser's contexts too); raised as CancelledError it leaves
\* the function.
continue_from_linkedin_home_keep_open ==
    /\ InContinue /\ pc = "keep_open"
    /\ \/ /\ \E o \in AwaitOutcome :
               IF o = "ok"
                 THEN /\ browser' = "closed"
                      /\ context' = "closed"
                      /\ run_end' = "returned"
                 ELSE /\ run_end' = EndAs(o)
                      /\ UNCHANGED <<browser, context>>
       \/ /\ run_end' = "interrupted"
          /\ UNCHANGED <<browser, context>>
    /\ pc' = "ended"
    /\ UNCHANGED <<unit, sel, screenshot, outsideRun>>

\* ------------------- click_modal_apply_and_wait and the Department step
InConfirm == unit = "click_modal_apply_and_wait"

\* click_strategies, by name, in list order.
Ladder == <<"normal click", "scroll and click", "force click", "JS click", "double click">>

\* What the lambda of a strategy does to apply_btn when it returns.
StrategyEffect(name) ==
    CASE name = "normal click" -> "click"
      [] name = "scroll and click" -> "scroll_into_view_if_needed"
      [] name = "force click" -> "click(force=True)"
      [] name = "JS click" -> "el.click()"
      [] name = "double click" -> "dblclick"

\* The effects that dispatch a click on the element.
ClickEffects == {"click", "click(force=True)", "el.click()", "dblclick"}

\* A click dispatched now on a control of scope `on`.
Dispatch(by, on, how) ==
    [call |-> cm_call, by |-> by, on |-> on, how |-> how, dialog |-> dialog]

\* click_modal_apply_and_wait returns None: no Apply button, every strategy
\* raised, or the call ran to its end.
CallReturned ==
    /\ cm_result' = "returned"
    /\ pc' = "confirm_after"
    /\ sel' = 0

\* An exception leaves click_modal_apply_and_wait.
CallRaised ==
    /\ cm_result' = "raised"
    /\ pc' = "confirm_after"
    /\ sel' = 0

\* await click_modal_apply_and_wait(page, "Product Management"): the first
\* call of the step (648) or its final attempt (668).
department_confirm_call ==
    /\ InConfirm /\ pc = "confirm_call"
    /\ cm_call' = cm_call + 1
    /\ polls' = 0
    /\ checks' = 0
    /\ last_obs' = "none"
    /\ tried' = <<>>
    /\ threw' = <<>>
    /\ cm_clicked' = FALSE
    /\ cm_result' = "none"
    /\ pc' = "cm_modal"
    /\ sel' = 0
    /\ UNCHANGED <<unit, dialog, use_panel, dispatched, verify_log, caller_saw, outsideConfirm>>

\* modal = page.get_by_role("dialog").first, or the locator of an alternative
\* selector: a Locator either way, so `if not modal` is never taken.
click_modal_apply_and_wait_modal ==
    /\ InConfirm /\ pc = "cm_modal"
    /\ pc' = "cm_apply"
    /\ sel' = 0
    /\ UNCHANGED <<unit, confirmVars, outsideConfirm>>

\* for selector in apply_selectors: the first one with count() > 0, all of them
\* inside the modal; without one the call returns; then
\* apply_btn.wait_for(state="visible"), outside any try.
click_modal_apply_and_wait_apply ==
    /\ InConfirm /\ pc = "cm_apply"
    /\ IF sel < NumModalApplySelectors
         THEN \/ /\ sel' = sel + 1
                 /\ UNCHANGED <<pc, cm_result>>
              \/ /\ dialog
                 /\ \/ /\ pc' = "cm_enabled"
                       /\ sel' = 0
                       /\ UNCHANGED cm_result
                    \/ CallRaised
         ELSE CallReturned
    /\ UNCHANGED <<unit, dialog, use_panel, cm_call, polls, checks, last_obs, tried, threw, dispatched,
                   cm_clicked, verify_log, caller_saw, outsideConfirm>>

\* for i in range(15): leave at the first poll that finds the button enabled;
\* a disabled button or a failing evaluate sleeps 0.5 s and polls again.
\* An enablement loop with one poll more.
PollsRemain_one_more == polls <= NumEnablePolls

\* for i in range(15)
PollsRemain == polls < NumEnablePolls

click_modal_apply_and_wait_enabled ==
    /\ InConfirm /\ pc = "cm_enabled"
    /\ IF PollsRemain
         THEN \E obs \in {"enabled", "disabled", "raised"} :
                /\ checks' = checks + 1
                /\ last_obs' = obs
                /\ IF obs = "enabled"
                     THEN /\ pc' = "cm_ladder"
                          /\ UNCHANGED polls
                     ELSE /\ polls' = polls + 1
                          /\ UNCHANGED pc
         ELSE /\ pc' = "cm_ladder"
              /\ UNCHANGED <<polls, checks, last_obs>>
    /\ sel' = 0
    /\ UNCHANGED <<unit, dialog, use_panel, cm_call, tried, threw, dispatched, cm_clicked,
                   cm_result, verify_log, caller_saw, outsideConfirm>>

\* A ladder that goes on to the next strategy after one that returned.
StrategyReturned_keeps_going(name) ==
    /\ cm_clicked' = TRUE
    /\ dispatched' = IF StrategyEffect(name) \in ClickEffects
                       THEN Append(dispatched, Dispatch("ladder", "modal", StrategyEffect(name)))
                       ELSE dispatched
    /\ sel' = sel + 1
    /\ UNCHANGED <<pc, cm_result>>

\* await strategy_func() returned: clicked = True; break
StrategyReturned(name) ==
    /\ cm_clicked' = TRUE
    /\ dispatched' = IF StrategyEffect(name) \in ClickEffects
                       THEN Append(dispatched, Dispatch("ladder", "modal", StrategyEffect(name)))
                       ELSE dispatched
    /\ pc' = "cm_hidden"
    /\ sel' = 0
    /\ UNCHANGED cm_result

\* for strategy_name, strategy_func in click_strategies: try the strategy; one
\* that raises is printed and the next is tried; when none is left and nothing
\* was clicked, a screenshot is taken and the call returns.
click_modal_apply_and_wait_ladder ==
    /\ InConfirm /\ pc = "cm_ladder"
    /\ IF sel < Len(Ladder)
         THEN \E raised \in BOOLEAN :
                /\ tried' = Append(tried, Ladder[sel + 1])
                /\ threw' = Append(threw, raised)
                /\ IF raised
                     THEN /\ sel' = sel + 1
                          /\ UNCHANGED <<pc, cm_clicked, dispatched, cm_result>>
                     ELSE StrategyReturned(Ladder[sel + 1])
         ELSE /\ IF cm_clicked
                   THEN /\ pc' = "cm_hidden"
                        /\ sel' = 0
                        /\ UNCHANGED cm_result
                   ELSE CallReturned
              /\ UNCHANGED <<tried, threw, cm_clicked, dispatched>>
    /\ UNCHANGED <<unit, dialog, use_panel, cm_call, polls, checks, last_obs, verify_log, caller_saw,
                   outsideConfirm>>

\* try: await modal.wait_for(state="hidden", timeout=10000): the dialog closes
\* or stays, and only a dispatched click can have closed it.
click_modal_apply_and_wait_hidden ==
    /\ InConfirm /\ pc = "cm_hidden"
    /\ \/ UNCHANGED dialog
       \/ /\ \E k \in 1..Len(dispatched) : dispatched[k].call = cm_call
          /\ dialog' = FALSE
    /\ pc' = "cm_settle"
    /\ UNCHANGED <<unit, sel, use_panel, cm_call, polls, checks, last_obs, tried, threw, dispatched, cm_clicked,
                   cm_result, verify_log, caller_saw, outsideConfirm>>

\* await wait_network_idle(page): automation.py's, which raises on a timeout.
click_modal_apply_and_wait_settle ==
    /\ InConfirm /\ pc = "cm_settle"
    /\ \/ /\ pc' = "cm_verify"
          /\ UNCHANGED <<sel, cm_result>>
       \/ CallRaised
    /\ UNCHANGED <<unit, dialog, use_panel, cm_call, polls, checks, last_obs, tried, threw, dispatched,
                   cm_clicked, verify_log, caller_saw, outsideConfirm>>

\* try: await assert_chip_applied(filter_chip_text) / except: a print.
click_modal_apply_and_wait_verify ==
    /\ InConfirm /\ pc = "cm_verify"
    /\ \E outcome \in {"confirmed", "failed"} :
         verify_log' = Append(verify_log, <<cm_call, outcome>>)
    /\ CallReturned
    /\ UNCHANGED <<unit, dialog, use_panel, cm_call, polls, checks, last_obs, tried, threw, dispatched,
                   cm_clicked, caller_saw, outsideConfirm>>

\* Back in the Department step: a call that returned is printed as a clicked
\* Apply button; only an exception starts the fallbacks, and after the final
\* attempt the step is over either way.
department_confirm_after ==
    /\ InConfirm /\ pc = "confirm_after"
    /\ caller_saw' = IF cm_result = "returned" THEN "clicked" ELSE "failed"
    /\ pc' = IF cm_result = "raised" /\ cm_call = 1 THEN "fallback_scope" ELSE "done"
    /\ UNCHANGED <<unit, sel, dialog, use_panel, cm_call, polls, checks, last_obs, tried, threw, dispatched,
                   cm_clicked, cm_result, verify_log, outsideConfirm>>

\* try: await click_apply_in_scope(target_scope): the first Apply-like button
\* inside the panel or the section container is clicked, if there is one.
department_fallback_scope ==
    /\ InConfirm /\ pc = "fallback_scope"
    /\ \/ UNCHANGED dispatched
       \/ /\ use_panel => dialog
          /\ dispatched' = Append(dispatched,
                 Dispatch("click_apply_in_scope", IF use_panel THEN "modal" ELSE "page", "click"))
    /\ pc' = "fallback_page"
    /\ UNCHANGED <<unit, sel, dialog, use_panel, cm_call, polls, checks, last_obs, tried, threw, cm_clicked,
                   cm_result, verify_log, caller_saw, outsideConfirm>>

\* try: await click_apply_in_scope(page): the first Apply-like button of the
\* whole page, in document order, is clicked - a page-level one or, with the
\* dialog open, possibly the dialog's.
department_fallback_page ==
    /\ InConfirm /\ pc = "fallback_page"
    /\ \/ UNCHANGED dispatched
       \/ dispatched' = Append(dispatched, Dispatch("click_apply_in_scope", "page", "click"))
       \/ /\ dialog
          /\ dispatched' = Append(dispatched, Dispatch("click_apply_in_scope", "modal", "click"))
    /\ pc' = "confirm_call"
    /\ UNCHANGED <<unit, sel, dialog, use_panel, cm_call, polls, checks, last_obs, tried, threw, cm_clicked,
                   cm_result, verify_log, caller_saw, outsideConfirm>>

\* ---------------------------------------------------- assert_chip_applied
InChip == unit = "assert_chip_applied"

\* The chip selector list matches any chip or tag container, the one bearing
\* the selected value included; the text selector matches the value only.
IndicatorVisibleBy(selector, t) ==
    IF selector = 0
      THEN generic_chip \/ value_at <= t
      ELSE value_at <= t

\* while asyncio.get_event_loop().time() < end
assert_chip_applied_while ==
    /\ InChip /\ pc = "ac_while"
    /\ IF ac_now < VerifyTimeout
         THEN /\ pc' = "ac_for"
              /\ UNCHANGED ac_result
         ELSE /\ pc' = "returned"
              /\ ac_result' = "returned"
    /\ sel' = 0
    /\ UNCHANGED <<unit, generic_chip, value_at, ac_now, outsideChip>>

\* for sel in [chip containers, text of the value]: wait_for(state="visible",
\* timeout=1000) and return when it succeeds; after the second selector the
\* raise of RuntimeError follows, inside the while body.
assert_chip_applied_for ==
    /\ InChip /\ pc = "ac_for"
    /\ IF sel < NumChipSelectors
         THEN IF IndicatorVisibleBy(sel, ac_now + ChipWaitTimeout)
                THEN /\ ac_result' = "returned"
                     /\ pc' = "returned"
                     /\ ac_now' = IF IndicatorVisibleBy(sel, ac_now) THEN ac_now ELSE value_at
                     /\ UNCHANGED sel
                ELSE /\ ac_now' = ac_now + ChipWaitTimeout
                     /\ sel' = sel + 1
                     /\ UNCHANGED <<pc, ac_result>>
         ELSE /\ ac_result' = "RuntimeError"
              /\ pc' = "raised"
              /\ UNCHANGED <<sel, ac_now>>
    /\ UNCHANGED <<unit, generic_chip, value_at, outsideChip>>

\* ------------------------------------------------- handle_required_fields
InFields == unit = "handle_required_fields"

\* Whether required_field_selectors[k] matches a field of this markup.
SelectorMatches(k, sh) ==
    CASE k = 1 -> sh.tag = "input" /\ sh.required
      [] k = 2 -> sh.tag = "textarea" /\ sh.required
      [] k = 3 -> sh.tag = "select" /\ sh.required
      [] k = 4 -> sh.tag = "input" /\ sh.aria
      [] k = 5 -> sh.tag = "textarea" /\ sh.aria
      [] OTHER -> FALSE

\* page.locator(selector): the matching fields, in document order.
RECURSIVE MatchesUpTo(_, _)
MatchesUpTo(k, n) ==
    IF n = 0 THEN <<>>
    ELSE IF SelectorMatches(k, form[n].shape)
           THEN Append(MatchesUpTo(k, n - 1), n)
           ELSE MatchesUpTo(k, n - 1)

Matches(k) == MatchesUpTo(k, Len(form))

\* `word in field_name.lower()` for the names of FieldShapes.
NameHas(name, word) ==
    \/ word = "name" /\ name = "full_name"
    \/ word = "years" /\ name = "years_total"

\* The if/elif chain choosing what to fill.
Placeholder(sh) ==
    IF NameHas(sh.name, "phone") \/ sh.type = "tel" THEN "+1234567890"
    ELSE IF NameHas(sh.name, "email") \/ sh.type = "email" THEN "user@example.com"
    ELSE IF NameHas(sh.name, "name") THEN "John Doe"
    ELSE IF NameHas(sh.name, "experience") \/ NameHas(sh.name, "years") THEN "5"
    ELSE IF sh.type = "number" THEN "5"
    ELSE "N/A"

\* Whether field.fill(text) can write the element: it raises on a <select>
\* and on a file input.
Fillable(sh) == sh.tag # "select" /\ sh.type # "file"

\* A field left alone only when it is hidden.
FieldSkipped_hidden_only(f) == ~form[f].visible

\* if await field.is_visible(): ... value = await field.input_value();
\* if value: continue
FieldSkipped(f) == ~form[f].visible \/ form[f].value # ""

\* for selector in required_field_selectors
handle_required_fields_for ==
    /\ InFields /\ pc = "rf_for"
    /\ IF sel < NumRequiredFieldSelectors
         THEN /\ sel' = sel + 1
              /\ rf_i' = 0
              /\ pc' = "rf_field"
         ELSE /\ pc' = "returned"
              /\ UNCHANGED <<sel, rf_i>>
    /\ UNCHANGED <<unit, form0, form, writes, outsideFields>>

\* for i in range(count): one field of the selector's matches. When fill()
\* raises, the except around the selector's body goes on with the next
\* selector, past the selector's remaining fields.
handle_required_fields_field ==
    /\ InFields /\ pc = "rf_field"
    /\ IF rf_i < Len(Matches(sel))
         THEN LET f == Matches(sel)[rf_i + 1] IN
              IF FieldSkipped(f)
                THEN /\ rf_i' = rf_i + 1
                     /\ UNCHANGED <<pc, form, writes>>
                ELSE IF ~Fillable(form[f].shape)
                       THEN /\ pc' = "rf_for"
                            /\ UNCHANGED <<rf_i, form, writes>>
                       ELSE /\ form' = [form EXCEPT ![f].value = Placeholder(form[f].shape)]
                            /\ writes' = writes \cup {[field |-> f, old |-> form[f].value,
                                                        visible |-> form[f].visible]}
                            /\ rf_i' = rf_i + 1
                            /\ UNCHANGED pc
         ELSE /\ pc' = "rf_for"
              /\ UNCHANGED <<rf_i, form, writes>>
    /\ UNCHANGED <<unit, sel, form0, outsideFields>>

\* -------------------------------------------- wait_for_captcha_completion
InCaptcha == unit = "wait_for_captcha_completion"

\* The selector scan and the text scan, both absorbing their exceptions; without
\* a CAPTCHA the call sleeps 3 s and returns.
wait_for_captcha_completion_detect ==
    /\ InCaptcha /\ pc = "cw_detect"
    /\ captcha_found' = (captcha_el \/ captcha_text)
    /\ IF captcha_el \/ captcha_text
         THEN /\ pc' = "cw_while"
              /\ UNCHANGED cw_result
         ELSE /\ pc' = "returned"
              /\ cw_result' = "no_captcha"
    /\ UNCHANGED <<unit, sel, captcha_el, captcha_text, waited_time, cw_polls, logged_in,
                   solved_poll, outsideCaptcha>>

\* The person at the browser solves the CAPTCHA: the page moves to the feed, or
\* a post-login landmark appears.
captcha_solved ==
    /\ InCaptcha /\ pc = "cw_while"
    /\ logged_in = "no"
    /\ logged_in' \in {"url", "indicator"}
    /\ solved_poll' = cw_polls
    /\ UNCHANGED <<unit, pc, sel, captcha_el, captcha_text, captcha_found, waited_time, cw_polls,
                   cw_result, outsideCaptcha>>

\* A loop that polls once more at the ceiling.
PollsLeft_inclusive == waited_time <= max_wait_time

\* while waited_time < max_wait_time
PollsLeft == waited_time < max_wait_time

\* One poll: the URL test, the success indicators (each in its own try), then
\* sleep(check_interval) and waited_time += check_interval; after the loop a
\* warning is printed and the call returns.
wait_for_captcha_completion_while ==
    /\ InCaptcha /\ pc = "cw_while"
    /\ IF PollsLeft
         THEN /\ cw_polls' = cw_polls + 1
              /\ IF logged_in # "no"
                   THEN /\ cw_result' = "success"
                        /\ pc' = "returned"
                        /\ UNCHANGED waited_time
                   ELSE /\ waited_time' = waited_time + check_interval
                        /\ UNCHANGED <<pc, cw_result>>
         ELSE /\ cw_result' = "timeout"
              /\ pc' = "returned"
              /\ UNCHANGED <<waited_time, cw_polls>>
    /\ UNCHANGED <<unit, sel, captcha_el, captcha_text, captcha_found, logged_in, solved_poll,
                   outsideCaptcha>>

\* ------------------------------- find_and_apply_to_first_job: job_info
InInfo == unit = "job_info"

\* str.strip() on the texts of TextOutcomes.
Strip(text) == IF text = " Acme " THEN "Acme" ELSE ""

\* An extraction whose failure wipes what was extracted before.
Extracted_clears(info, field, outcome) ==
    IF outcome = "raises" THEN [f \in InfoFields |-> ""]
    ELSE [info EXCEPT ![field] = Strip(IF outcome = "None" THEN "" ELSE outcome)]

\* try: job_info[field] = (await elem.text_content() or "").strip()
\* except Exception: pass
Extracted(info, field, outcome) ==
    IF outcome = "raises" THEN info
    ELSE [info EXCEPT ![field] = Strip(IF outcome = "None" THEN "" ELSE outcome)]

\* Get job title
job_info_title ==
    /\ InInfo /\ pc = "info_title"
    /\ job_info' = Extracted(job_info, "title", card["title"])
    /\ pc' = "info_company"
    /\ UNCHANGED <<unit, sel, card, emitted, outsideInfo>>

\* Get company name
job_info_company ==
    /\ InInfo /\ pc = "info_company"
    /\ job_info' = Extracted(job_info, "company", card["company"])
    /\ pc' = "info_location"
    /\ UNCHANGED <<unit, sel, card, emitted, outsideInfo>>

\* Get location
job_info_location ==
    /\ InInfo /\ pc = "info_location"
    /\ job_info' = Extracted(job_info, "location", card["location"])
    /\ pc' = "info_click"
    /\ UNCHANGED <<unit, sel, card, emitted, outsideInfo>>

\* await job_card.click(): the candidate is opened, or the click raises and the
\* loop's except moves on.
job_info_click ==
    /\ InInfo /\ pc = "info_click"
    /\ pc' \in {"info_opened", "info_failed"}
    /\ UNCHANGED <<unit, sel, card, job_info, emitted, outsideInfo>>

\* ------------------------------------------------------------- main_async
\* The credential controls of login_naukri, in the order they are resolved.
LoginControls == {"login_email", "login_password", "login_submit"}

\* The steps of main_async after the login.
StepsAfterLogin == <<"search_jobs", "apply_left_nav_filters", "collect_first_job_and_apply">>

\* An Exception or the interrupt leaves main_async at step st: nothing in
\* main_async catches it, the finally of launch_browser runs.
LeftMainAt(st, o) ==
    /\ failed_step' = IF o = "exception" THEN st ELSE failed_step
    /\ run_end' = EndAs(o)
    /\ pc' = "finally_context"

\* A login that goes on to the next control when one could not be resolved.
CredentialUnresolved_absorbed(control, next_pc) ==
    /\ failed_step' = control
    /\ pc' = next_pc
    /\ UNCHANGED run_end

\* first_locator raised RuntimeError for a credential control (or fill/click on
\* it raised): login_naukri and open_home_and_login have no handler.
CredentialUnresolved(control, next_pc) == LeftMainAt(control, "exception")

\* open_url (new_page, goto, wait_network_idle) and dismiss_geolocation_prompt.
main_async_open_home ==
    /\ InMain /\ pc = "open_home"
    /\ started' = started \cup {"open_home"}
    /\ \E o \in AwaitOutcome :
         IF o = "ok"
           THEN /\ pc' = "login_button"
                /\ UNCHANGED <<failed_step, run_end>>
           ELSE LeftMainAt("open_home", o)
    /\ UNCHANGED <<unit, sel, browser, context, screenshot, login_button, outsideMain>>

\* try: first_locator(login_button_selectors, 5000); click. except Exception: pass
login_naukri_button ==
    /\ InMain /\ pc = "login_button"
    /\ started' = started \cup {"login_button"}
    /\ \E o \in AwaitOutcome :
         CASE o = "ok" -> /\ login_button' = "clicked"
                          /\ pc' = "login_email"
                          /\ UNCHANGED <<failed_step, run_end>>
           [] o = "exception" -> /\ login_button' = "absent"
                                 /\ pc' = "login_email"
                                 /\ UNCHANGED <<failed_step, run_end>>
           [] o = "interrupt" -> /\ LeftMainAt("login_button", o)
                                 /\ UNCHANGED login_button
    /\ UNCHANGED <<unit, sel, browser, context, screenshot, outsideMain>>

\* One credential control: first_locator, then fill or click.
Credential(control, next_pc) ==
    /\ InMain /\ pc = control
    /\ started' = started \cup {control}
    /\ \E o \in AwaitOutcome :
         CASE o = "ok" -> /\ pc' = next_pc
                          /\ UNCHANGED <<failed_step, run_end>>
           [] o = "exception" -> CredentialUnresolved(control, next_pc)
           [] o = "interrupt" -> LeftMainAt(control, o)
    /\ UNCHANGED <<unit, sel, browser, context, screenshot, login_button, outsideMain>>

\* email_input = await first_locator(page, email_input_selectors); fill
login_naukri_email == Credential("login_email", "login_password")

\* pwd_input = await first_locator(page, password_input_selectors); fill
login_naukri_password == Credential("login_password", "login_submit")

\* submit_btn = await first_locator(page, submit_login_selectors); click
login_naukri_submit == Credential("login_submit", "login_settle")

\* await wait_network_idle(page) at the end of login_naukri.
login_naukri_settle ==
    /\ InMain /\ pc = "login_settle"
    /\ started' = started \cup {"login_settle"}
    /\ \E o \in AwaitOutcome :
         IF o = "ok"
           THEN /\ pc' = StepsAfterLogin[1]
                /\ UNCHANGED <<failed_step, run_end>>
           ELSE LeftMainAt("login_settle", o)
    /\ UNCHANGED <<unit, sel, browser, context, screenshot, login_button, outsideMain>>

\* search_jobs, apply_left_nav_filters, collect_first_job_and_apply: none is
\* inside a try of main_async.
main_async_step ==
    /\ InMain
    /\ \E k \in 1..Len(StepsAfterLogin) :
         /\ pc = StepsAfterLogin[k]
         /\ started' = started \cup {StepsAfterLogin[k]}
         /\ \E o \in AwaitOutcome :
              IF o = "ok"
                THEN /\ IF k < Len(StepsAfterLogin)
                          THEN /\ pc' = StepsAfterLogin[k + 1]
                               /\ UNCHANGED run_end
                          ELSE /\ pc' = "report"
                               /\ UNCHANGED run_end
                     /\ UNCHANGED failed_step
                ELSE LeftMainAt(StepsAfterLogin[k], o)
    /\ UNCHANGED <<unit, sel, browser, context, screenshot, login_button, outsideMain>>


\* return {"title": "No available jobs", "company": "", "location": "", "link": ""}
NoAvailableJobs ==
    [f \in JobInfoKeys |-> IF f = "title" THEN "No available jobs" ELSE ""]

\* The end of the call for this candidate, taken as the last one: the modal
\* call succeeded and job_info is returned, or the candidate was passed over and
\* the loop's exhaustion returns the sentinel. The run hands either to
\* write_excel_report.
job_info_return ==
    /\ InInfo /\ pc \in {"info_opened", "info_failed"}
    /\ \/ /\ pc = "info_opened"
          /\ emitted' = job_info
       \/ emitted' = NoAvailableJobs
    /\ pc' = "info_returned"
    /\ UNCHANGED <<unit, sel, card, job_info, outsideInfo>>

\* -------------------------------------------------- robust_check_checkbox
InCheckbox == unit = "robust_check_checkbox"

\* 1) cb.wait_for, scroll, cb.check(): check() returns with the box selected,
\* or something in the try raises and the box is as it was.
robust_check_checkbox_role ==
    /\ InCheckbox /\ pc = "rc_role"
    /\ \/ /\ checked' = TRUE
          /\ rc_via' = "check"
          /\ pc' = "returned"
       \/ /\ pc' = "rc_label"
          /\ UNCHANGED <<checked, rc_via>>
    /\ UNCHANGED <<unit, sel, checked0, outsideCheckbox>>

\* 2) label.click(): a click on the label toggles its checkbox; nothing is
\* read back.
robust_check_checkbox_label ==
    /\ InCheckbox /\ pc = "rc_label"
    /\ \/ /\ checked' = ~checked
          /\ rc_via' = "label"
          /\ pc' = "returned"
       \/ /\ pc' = "rc_script"
          /\ UNCHANGED <<checked, rc_via>>
    /\ UNCHANGED <<unit, sel, checked0, outsideCheckbox>>

\* 3) el.checked = true by script; an exception is passed over and the
\* function ends all the same.
robust_check_checkbox_script ==
    /\ InCheckbox /\ pc = "rc_script"
    /\ \/ /\ checked' = TRUE
          /\ rc_via' = "script"
       \/ /\ rc_via' = "nothing"
          /\ UNCHANGED checked
    /\ pc' = "returned"
    /\ UNCHANGED <<unit, sel, checked0, outsideCheckbox>>

\* ------------------------------------------------------- navigate_to_jobs
InNav == unit = "navigate_to_jobs"

\* first_locator(jobs_menu_selectors), click, wait_network_idle: a failure
\* reaches the outer except.
navigate_to_jobs_menu ==
    /\ InNav /\ pc = "nj_menu"
    /\ \/ /\ menu_found' = TRUE
          /\ nav_page' = "jobs"
          /\ pc' = "nj_title"
       \/ /\ pc' = "nj_jobs_url"
          /\ UNCHANGED <<menu_found, nav_page>>
    /\ UNCHANGED <<unit, sel, search_successful, location_filled, form_reached, direct_goto,
                   outsideNav>>

\* Approach 1: the first title selector that matches is filled.
navigate_to_jobs_title ==
    /\ InNav /\ pc = "nj_title"
    /\ search_successful' \in BOOLEAN
    /\ pc' = "nj_location"
    /\ UNCHANGED <<unit, sel, nav_page, menu_found, location_filled, form_reached, direct_goto,
                   outsideNav>>

\* Approach 2: the first location selector that matches is filled.
navigate_to_jobs_location ==
    /\ InNav /\ pc = "nj_location"
    /\ location_filled' \in BOOLEAN
    /\ pc' = "nj_submit"
    /\ UNCHANGED <<unit, sel, nav_page, menu_found, search_successful, form_reached, direct_goto,
                   outsideNav>>

\* Approach 3: if search_successful, Enter on the location input and, when
\* the URL is not a search URL, a forced click on the search button; the try
\* absorbs every failure.
navigate_to_jobs_submit ==
    /\ InNav /\ pc = "nj_submit"
    /\ IF search_successful
         THEN \/ /\ form_reached' = TRUE
                 /\ nav_page' = "results"
              \/ UNCHANGED <<form_reached, nav_page>>
         ELSE UNCHANGED <<form_reached, nav_page>>
    /\ pc' = "nj_goto"
    /\ UNCHANGED <<unit, sel, menu_found, search_successful, location_filled, direct_goto,
                   outsideNav>>

\* "Final fallback": page.goto(search_url) in a try, under no condition; when
\* it raises the page is where it was or on the browser's error page.
navigate_to_jobs_goto ==
    /\ InNav /\ pc = "nj_goto"
    /\ direct_goto' = TRUE
    /\ nav_page' \in {"results", nav_page, "error"}
    /\ pc' = "returned"
    /\ UNCHANGED <<unit, sel, menu_found, search_successful, location_filled, form_reached,
                   outsideNav>>

\* except: page.goto("https://www.linkedin.com/jobs/") in a try.
navigate_to_jobs_jobs_url ==
    /\ InNav /\ pc = "nj_jobs_url"
    /\ nav_page' \in {"jobs", nav_page, "error"}
    /\ pc' = "returned"
    /\ UNCHANGED <<unit, sel, menu_found, search_successful, location_filled, form_reached,
                   direct_goto, outsideNav>>


\* report_path = write_excel_report(job)
main_async_report ==
    /\ InMain /\ pc = "report"
    /\ started' = started \cup {"report"}
    /\ \E o \in AwaitOutcome :
         IF o = "ok"
           THEN /\ report_written' = TRUE
                /\ pc' = "email"
                /\ UNCHANGED <<failed_step, run_end>>
           ELSE /\ LeftMainAt("report", o)
                /\ UNCHANGED report_written
    /\ UNCHANGED <<unit, sel, browser, context, screenshot, login_button, smtp_fields, email,
                   outsideMainMail>>

\* A test that looks at the two addresses only.
SmtpConfigured_addresses_only == {"mail_from", "mail_to"} \subseteq smtp_fields

\* if smtp.mail_from and smtp.mail_to and smtp.username and smtp.password
SmtpConfigured == SmtpFields \subseteq smtp_fields

\* The conditional e-mail: send_email_with_attachment in try / except Exception,
\* or the "SMTP not configured" message; then the `async with` body is over and
\* `return 0` follows the exit of launch_browser.
main_async_email ==
    /\ InMain /\ pc = "email"
    /\ started' = started \cup {"email"}
    /\ IF SmtpConfigured
         THEN \E o \in AwaitOutcome :
                CASE o = "ok" -> /\ email' = "sent"
                                 /\ run_end' = "returned"
                                 /\ pc' = "finally_context"
                                 /\ UNCHANGED failed_step
                  [] o = "exception" -> /\ email' = "failed"
                                        /\ run_end' = "returned"
                                        /\ pc' = "finally_context"
                                        /\ UNCHANGED failed_step
                  [] o = "interrupt" -> /\ LeftMainAt("email", o)
                                        /\ UNCHANGED email
         ELSE /\ email' = "skipped"
              /\ run_end' = "returned"
              /\ pc' = "finally_context"
              /\ UNCHANGED failed_step
    /\ UNCHANGED <<unit, sel, browser, context, screenshot, login_button, smtp_fields,
                   report_written, outsideMainMail>>

\* ------------------------------------------------------------------- Next
Next ==
    \/ main_async_report
    \/ main_async_email
    \/ navigate_to_jobs_menu
    \/ navigate_to_jobs_title
    \/ navigate_to_jobs_location
    \/ navigate_to_jobs_submit
    \/ navigate_to_jobs_goto
    \/ navigate_to_jobs_jobs_url
    \/ robust_check_checkbox_role
    \/ robust_check_checkbox_label
    \/ robust_check_checkbox_script
    \/ job_info_return
    \/ main_async_open_home
    \/ login_naukri_button
    \/ login_naukri_email
    \/ login_naukri_password
    \/ login_naukri_submit
    \/ login_naukri_settle
    \/ main_async_step
    \/ job_info_title
    \/ job_info_company
    \/ job_info_location
    \/ job_info_click
    \/ wait_for_captcha_completion_detect
    \/ captcha_solved
    \/ wait_for_captcha_completion_while
    \/ handle_required_fields_for
    \/ handle_required_fields_field
    \/ apply_filters_again
    \/ assert_chip_applied_while
    \/ assert_chip_applied_for
    \/ department_confirm_call
    \/ click_modal_apply_and_wait_modal
    \/ click_modal_apply_and_wait_apply
    \/ click_modal_apply_and_wait_enabled
    \/ click_modal_apply_and_wait_ladder
    \/ click_modal_apply_and_wait_hidden
    \/ click_modal_apply_and_wait_settle
    \/ click_modal_apply_and_wait_verify
    \/ department_confirm_after
    \/ department_fallback_scope
    \/ department_fallback_page
    \/ first_locator
    \/ wait_network_idle_clean
    \/ wait_network_idle
    \/ apply_filters_inspect
    \/ apply_filters_date_find
    \/ apply_filters_date_click
    \/ apply_filters_date_option
    \/ apply_filters_date_show
    \/ apply_filters_easy_find
    \/ apply_filters_easy_click
    \/ apply_left_nav_filters_department
    \/ apply_left_nav_filters_location
    \/ apply_left_nav_filters_freshness
    \/ launch_browser_launch
    \/ launch_browser_new_context
    \/ resume_automation_page
    \/ resume_automation_work
    \/ resume_automation_handler
    \/ launch_browser_finally_context
    \/ launch_browser_finally_browser
    \/ continue_from_linkedin_home_connect
    \/ continue_from_linkedin_home_work
    \/ continue_from_linkedin_home_handler
    \/ continue_from_linkedin_home_keep_open
    \/ find_and_apply_start
    \/ find_and_apply_for
    \/ find_and_apply_open
    \/ find_and_apply_scan
    \/ find_and_apply_check
    \/ find_and_apply_click
    \/ find_and_apply_after_modal
    \/ handle_easy_apply_modal_find
    \/ handle_easy_apply_modal_pause
    \/ handle_easy_apply_modal_while
    \/ handle_easy_apply_modal_review
    \/ handle_easy_apply_modal_submit
    \/ handle_easy_apply_modal_next
    \/ close_application_modal
    \/ handle_easy_apply_modal_details

Spec == Init /\ [][Next]_vars

\* Every await of the flow is bounded by a timeout or a sleep, so the single
\* cooperative flow always takes its next step.
FairSpec == Spec /\ WF_vars(Next)

\* The actions of one handle_easy_apply_modal call.
NextModal ==
    \/ handle_easy_apply_modal_find
    \/ handle_easy_apply_modal_pause
    \/ handle_easy_apply_modal_while
    \/ handle_easy_apply_modal_review
    \/ handle_easy_apply_modal_submit
    \/ handle_easy_apply_modal_next
    \/ close_application_modal
    \/ handle_easy_apply_modal_details

\* One call of handle_easy_apply_modal. Each of its awaits is bounded (a sleep,
\* or a driver call with a timeout), so the call always takes its next step.
ModalSpec == InitModal /\ [][NextModal]_vars /\ WF_vars(NextModal)

\* ================================================================ claims

\* C1: first_locator tries the selectors in declared order and returns the
\* element of the lowest-index selector whose visibility wait succeeds, never
\* a later one; it raises RuntimeError iff every selector of the chain fails.
C1_FirstMatchWins ==
    unit = "first_locator" =>
      /\ sel <= Len(chain)
      /\ \A k \in 1..sel : ~chain[k]
      /\ fl_result = "found" =>
            /\ fl_index = sel
            /\ fl_index < Len(chain)
            /\ chain[fl_index + 1]
            /\ \A k \in 1..fl_index : ~chain[k]
      /\ pc # "for" =>
            (fl_result = "RuntimeError" <=> \A k \in 1..Len(chain) : ~chain[k])
      /\ pc # "for" => fl_result \in {"found", "RuntimeError"}

\* Scenario A: the first selector misses, the second and a later one hit, and
\* the second one's element is returned.
C1_Witness ==
    /\ unit = "first_locator"
    /\ fl_result = "found"
    /\ fl_index = 1
    /\ Len(chain) >= 3
    /\ chain[3]

\* C2: the job loop clicks candidates in increasing index order, each at most
\* once, at most min(job_count, 10) of them, and none after the first one whose
\* application succeeds, so at most one candidate is Applied per run.
C2_BoundedOrderedSingleApply ==
    InJobLoop =>
      /\ Len(opened) <= Min(job_count, 10)
      /\ \A k \in 1..Len(opened) : opened[k] < job_count
      /\ \A k \in 1..Len(opened) : \A m \in 1..Len(opened) :
            k < m => opened[k] < opened[m]
      /\ applied <= 1
      /\ applied = 1 =>
            /\ pc = "returned"
            /\ result = "job_info"
            /\ status = "Applied"
            /\ opened[Len(opened)] = i

\* The second card of the largest page is applied to: the loop has returned its
\* record and the remaining cards were never opened.
C2_Witness ==
    /\ InJobLoop
    /\ job_count = MaxJobs
    /\ pc = "returned"
    /\ applied = 1
    /\ opened = <<0, 1>>

C4_BoundedTermination ==
    /\ [](iters <= max_steps /\ step <= max_steps)
    /\ [](success = "True" => (mstate = "Closed" /\ (modal_found => closes = <<"normal">>)))
    /\ [](success = "False" => mstate = "Failed")
    /\ (mstate = "Opened") ~> (success \in {"True", "False"})

\* A call that used all max_steps iterations and then closed.
C4_Witness ==
    /\ unit = "handle_easy_apply_modal"
    /\ iters = max_steps
    /\ step = max_steps
    /\ success = "True"

\* The control with the higher priority: Review before Submit before Next.
Before(a, b) == <<a, b>> \in {<<"Review", "Submit">>, <<"Review", "Next">>, <<"Submit", "Next">>}

\* C5 (as claimed): in an iteration only the first control that is available,
\* visible and enabled is clicked.
C5_FirstEnabledControlClicked ==
    InModal =>
      \A k \in 1..Len(clicked) : \A c \in enabled_seen : ~Before(c, clicked[k])

\* C5 (amended): in each iteration the controls are tried in the order Review,
\* Submit, Next/Continue, a control is tried only after no click on a control
\* before it has returned, and the iteration ends at the first click that
\* returns: a control that is visible and enabled but whose click raises is
\* passed over. A Review or Next click that returns increments the step
\* counter and starts another iteration; a Submit click that returns ends the
\* loop and leaves the counter as it is.
C5_FirstReturningClickEndsIteration ==
    /\ [](InModal =>
            /\ Len(clicked) <= 1
            /\ pc \in {"modal_review", "modal_submit", "modal_next"} => clicked = <<>>)
    /\ [][InModal =>
            /\ pc' = "modal_review" /\ pc # pc' => pc = "modal_while"
            /\ pc' = "modal_submit" /\ pc # pc' => pc = "modal_review"
            /\ pc' = "modal_next" /\ pc # pc' => pc = "modal_submit"
            /\ clicked' # clicked /\ clicked' = <<"Review">> =>
                  pc = "modal_review" /\ step' = step + 1 /\ pc' = "modal_while"
            /\ clicked' # clicked /\ clicked' = <<"Submit">> =>
                  pc = "modal_submit" /\ step' = step /\ pc' = "modal_close"
            /\ clicked' # clicked /\ clicked' = <<"Next">> =>
                  pc = "modal_next" /\ step' = step + 1 /\ pc' = "modal_while"
            /\ step' # step =>
                  (step' = 0 \/ (clicked' # clicked /\ clicked' \in {<<"Review">>, <<"Next">>}))
         ]_vars

\* After two steps, Review is visible and enabled but its click raises, and
\* Submit is clicked.
C5_Witness ==
    /\ InModal
    /\ step = 2
    /\ clicked = <<"Submit">>
    /\ "Review" \in enabled_seen
    /\ pc = "modal_close"

\* C6 (as claimed): on every exit path of a run, both the browser context and
\* the browser have been closed by the time the run ends.
C6_SessionReleasedOnExit ==
    (unit \in {"resume_automation", "continue_from_linkedin_home"} /\ pc = "ended") =>
      (context # "open" /\ browser # "open")

\* The steps of the two filter sequencers, in their declared order.
FilterSteps ==
    IF unit = "apply_filters"
      THEN <<"Date Posted", "Easy Apply">>
      ELSE <<"Department", "Location", "Freshness">>

\* C7: every filter step is attempted exactly once per run, in its declared
\* order; a failure inside a step neither prevents the next step from being
\* attempted nor is raised out of the sequencer.
C7_EveryFilterStepOnce ==
    unit \in {"apply_filters", "apply_left_nav_filters"} =>
      /\ Len(attempted) <= Len(FilterSteps)
      /\ attempted = SubSeq(FilterSteps, 1, Len(attempted))
      /\ failed \subseteq {attempted[k] : k \in 1..Len(attempted)}
      /\ fs_result # "raised"
      /\ pc # "raised"
      /\ pc = "returned" => (fs_result = "returned" /\ attempted = FilterSteps)

\* Scenario C: the Date Posted step failed and the Easy Apply step was
\* attempted after it.
C7_Witness ==
    /\ unit = "apply_filters"
    /\ "Date Posted" \in failed
    /\ attempted = <<"Date Posted", "Easy Apply">>
    /\ pc = "returned"

\* C8 (as claimed): wait_network_idle never raises.
C8_SettleNeverRaises ==
    unit \in {"automation_clean.wait_network_idle", "automation.wait_network_idle"} =>
      (wn_result # "raised" /\ pc # "raised")

\* C9: whenever handle_easy_apply_modal returns False after a modal was found,
\* the close-overlay cleanup of the except handler has been attempted first.
C9_CleanupBeforeFailure ==
    (InModal /\ success = "False") =>
      /\ modal_found
      /\ Len(closes) >= 1
      /\ closes[Len(closes)] = "handler"

\* A call that found the modal and returned False.
C9_Witness ==
    /\ InModal
    /\ modal_found
    /\ success = "False"
    /\ pc = "after_modal"

\* C10 (as claimed): the job loop never clicks the next candidate while the
\* application modal of an earlier candidate is still open.
C10_NoOpenWhileModalOpen ==
    (InJobLoop /\ pc = "open") => ~modal_open

\* The resolver takes no total budget; the claimed bound is checked for a
\* budget of two per-candidate timeouts.
totalBudget == 2 * DefaultLocatorTimeout

\* C14 (as claimed): resolving a chain never takes longer than totalBudget
\* plus one per-candidate timeout, even when every candidate times out.
C14_ElapsedWithinBudget ==
    unit = "first_locator" => fl_elapsed <= totalBudget + DefaultLocatorTimeout

\* C20: when no modal container is found, handle_easy_apply_modal returns True
\* at once: no human pause, no stepping iteration, and no Review, Submit, Next
\* or close control is clicked.
C20_NoModalShortCircuit ==
    (InModal /\ pc \in {"modal_find", "modal_pause", "modal_while", "modal_review",
                         "modal_submit", "modal_next", "modal_close", "modal_details",
                         "after_modal"} /\ ~modal_found) =>
      /\ mstate \in {"Opened", "Closed"}
      /\ pc \in {"modal_find", "after_modal"}
      /\ iters = 0
      /\ step = 0
      /\ clicked = <<>>
      /\ closes = <<>>
      /\ pc = "after_modal" => (success = "True" /\ mstate = "Closed")

\* A call on a page that opened no modal has returned True.
C20_Witness ==
    /\ unit = "handle_easy_apply_modal"
    /\ ~modal_open
    /\ ~modal_found
    /\ pc = "after_modal"
    /\ success = "True"
    /\ iters = 0

\* C11: the click strategies run in the order normal click, scroll and click,
\* force click, JS click, double click; a strategy runs only after every
\* earlier one raised, and none runs after the first that returns.
C11_LadderInOrder ==
    InConfirm =>
      /\ Len(tried) <= Len(Ladder)
      /\ Len(threw) = Len(tried)
      /\ tried = SubSeq(Ladder, 1, Len(tried))
      /\ \A k \in 1..Len(tried) - 1 : threw[k]
      /\ (Len(tried) > 0 /\ ~threw[Len(tried)]) => (cm_clicked /\ pc # "cm_ladder")
      /\ cm_clicked => (Len(tried) > 0 /\ ~threw[Len(tried)])

\* The first two strategies raised and the forced click, the third, returned.
C11_Witness ==
    /\ InConfirm
    /\ tried = <<"normal click", "scroll and click", "force click">>
    /\ threw = <<TRUE, TRUE, FALSE>>
    /\ pc = "cm_hidden"

\* C12 (as claimed): whenever the executor reports the control as clicked, one
\* of its strategies dispatched a click on the target element in that call.
C12_ClickedMeansDispatched ==
    (InConfirm /\ cm_clicked) =>
      \E k \in 1..Len(dispatched) :
         /\ dispatched[k].call = cm_call
         /\ dispatched[k].by = "ladder"
         /\ dispatched[k].how \in ClickEffects

\* C13 (as claimed): when all five strategies raised, the caller does not take
\* the confirm control as clicked.
C13_ExhaustedLadderIsFailure ==
    (InConfirm /\ pc \in {"done", "fallback_scope"} /\ cm_call = 1
       /\ Len(threw) = Len(Ladder) /\ \A k \in 1..Len(threw) : threw[k]) =>
      caller_saw # "clicked"

\* C17 (as claimed): when the verification after the confirm click failed, the
\* step makes exactly one more confirm attempt before it gives up.
C17_RetryOnceAfterFailedVerification ==
    (InConfirm /\ pc = "done" /\ Len(verify_log) > 0 /\ verify_log[1] = <<1, "failed">>) =>
      cm_call = 2

\* C18 (as claimed): while the dialog is present, a confirm click is only ever
\* dispatched on a control inside it.
C18_ConfirmInsideDialog ==
    InConfirm =>
      \A k \in 1..Len(dispatched) : dispatched[k].dialog => dispatched[k].on = "modal"

\* C15 (as claimed): assert_chip_applied reports a verification failure only
\* once the verification timeout has elapsed, and finds an indicator that
\* becomes visible within that timeout.
C15_VerificationPollsUntilTimeout ==
    InChip =>
      /\ ac_result = "RuntimeError" => ac_now >= VerifyTimeout
      /\ (pc \in {"returned", "raised"} /\ value_at < VerifyTimeout) => ac_result = "returned"

\* C16 (as claimed): assert_chip_applied succeeds only when the indicator
\* bearing the selected value is visible.
C16_VerifiedMeansValueVisible ==
    (InChip /\ ac_result = "returned") => value_at <= ac_now

\* C19 (as claimed): running the whole filter sequence twice leaves the same
\* set of applied filters as running it once.
C19_FilterSequenceIdempotent ==
    (InApplyFilters /\ runs = 2 /\ after_first = {"Past 24 hours", "Easy Apply"}) =>
      page_filters = after_first

\* C26: a failure while processing one candidate never leaves the loop: the
\* loop goes on with the next index, and when the range is used up without a
\* success it returns the record titled "No available jobs".
C26_CandidateFailureAbsorbed ==
    InJobLoop =>
      /\ pc = "raised" => (opened = <<>> /\ i = 0)
      /\ (pc = "for" /\ status \in {"Failed", "NoApplyControl"}) => i = Len(opened)
      /\ (pc = "returned" /\ applied = 0) =>
            (result = "No available jobs" /\ Len(opened) = LoopBound /\ i = LoopBound)

\* Every card of a page with several cards failed and the sentinel was returned.
C26_Witness ==
    /\ InJobLoop
    /\ pc = "returned"
    /\ result = "No available jobs"
    /\ Len(opened) >= 2
    /\ status = "Failed"

\* C28 (as claimed): the apply control clicked for a candidate is an element
\* inside the job-detail region.
C28_ApplyClickInsideJobDetail ==
    (InJobLoop /\ apply_clicked) => apply_region = "job-detail"

\* C21: whenever a modal container was found, the 30 s human pause has
\* completed before the first stepping iteration starts and before any
\* Review, Submit or Next control is clicked.
C21_PauseBeforeStepping ==
    (InModal /\ modal_found) =>
      /\ (iters > 0 \/ clicked # <<>> \/ enabled_seen # {}) => pause_done
      /\ pc \in {"modal_while", "modal_review", "modal_submit", "modal_next"} => pause_done
      /\ pc = "modal_pause" => (~pause_done /\ iters = 0)

\* A session with a modal in which a control was clicked, after the pause.
C21_Witness ==
    /\ InModal
    /\ modal_found
    /\ pause_done
    /\ clicked # <<>>

\* C22 (as claimed): required-field auto-fill has been performed when the
\* human pause begins.
C22_AutofillBeforePause ==
    (InModal /\ pc = "modal_pause") => autofills > 0

C23_AutofillOnlyEmptyVisible ==
    InFields =>
      /\ \A w \in writes :
            /\ w.old = ""
            /\ w.visible
            /\ form0[w.field].value = ""
            /\ form0[w.field].shape.required \/ form0[w.field].shape.aria
      /\ \A f \in 1..Len(form) :
            (form0[f].value # "" \/ ~form0[f].visible) => form[f].value = form0[f].value

\* The call returned having filled one field and passed over a field that
\* held the candidate's own value.
C23_Witness ==
    /\ InFields
    /\ pc = "returned"
    /\ writes # {}
    /\ \E f \in 1..Len(form) :
          /\ form0[f].value = "typed"
          /\ form0[f].visible
          /\ form0[f].shape.required
          /\ form[f].value = "typed"
\* C25: with a CAPTCHA detected, wait_for_captcha_completion polls at most 100
\* times (300 s of sleeping, 3 s apart), returns at the first poll after the
\* feed URL or a success indicator shows, and at the ceiling returns normally.
C25_CaptchaWaitBounded ==
    (InCaptcha /\ captcha_found) =>
      /\ cw_polls <= 100
      /\ waited_time <= 300
      /\ pc \in {"cw_while", "returned"}
      /\ (pc = "cw_while" /\ logged_in # "no") => cw_polls = solved_poll
      /\ cw_result = "success" => (logged_in # "no" /\ cw_polls = solved_poll + 1)
      /\ cw_result = "timeout" => (pc = "returned" /\ cw_polls = 100 /\ waited_time = 300)

\* The ceiling expired after 100 polls and the call returned.
C25_Witness ==
    /\ InCaptcha
    /\ captcha_found
    /\ pc = "returned"
    /\ cw_result = "timeout"
    /\ cw_polls = 100
\* C27: title, company and location are extracted independently: a field whose
\* extraction raised is the empty string, every other field holds what its own
\* element gave, and the flow goes on to open the candidate.
C27_MetadataIndependent ==
    InInfo =>
      /\ pc \in {"info_title", "info_company", "info_location", "info_click",
                  "info_opened", "info_failed", "info_returned"}
      /\ pc \in {"info_click", "info_opened", "info_failed"} =>
            \A f \in InfoFields :
              job_info[f] = (IF card[f] = " Acme " THEN "Acme" ELSE "")
      /\ pc = "info_location" => job_info["title"] = (IF card["title"] = " Acme " THEN "Acme" ELSE "")

\* The company could not be extracted, title and location were, and the card
\* was opened.
C27_Witness ==
    /\ InInfo
    /\ pc = "info_opened"
    /\ card["company"] = "raises"
    /\ job_info["company"] = ""
    /\ job_info["title"] = "Acme"
    /\ job_info["location"] = "Acme"
\* C29: when the email, password or submit control of the login cannot be
\* resolved, the failure leaves main_async (the run does not end by returning)
\* and no search, filter or apply step was started; a login button that cannot
\* be resolved is absorbed and the login goes on to the email control.
C29_LoginFailurePropagates ==
    InMain =>
      /\ failed_step \in LoginControls =>
            /\ started \cap {"search_jobs", "apply_left_nav_filters",
                                "collect_first_job_and_apply", "report"} = {}
            /\ pc \in {"finally_context", "finally_browser", "ended"}
            /\ run_end \in {"exception", "interrupted"}
      /\ login_button = "absent" => (pc = "login_email" \/ "login_email" \in started)

\* The login button was absent, the password control could not be resolved,
\* and the run ended with the exception after the browser was closed.
C29_Witness ==
    /\ InMain
    /\ login_button = "absent"
    /\ failed_step = "login_password"
    /\ pc = "ended"
    /\ run_end = "exception"
    /\ browser = "closed"

\* C30 (as claimed): a run of main_async that an Exception left on the main
\* path has captured a screenshot when it ends.
C30_ScreenshotOnFailure ==
    (InMain /\ pc = "ended" /\ failed_step # "none") => screenshot
\* C31 (as claimed): the record a run hands to the report writer has the keys
\* title, company, location, link and appliedDate and describes the job that
\* was applied.
C31_RecordOfAppliedJob ==
    (InInfo /\ pc = "info_returned") =>
      /\ DOMAIN emitted = {"title", "company", "location", "link", "appliedDate"}
      /\ emitted["title"] # "No available jobs"
\* C32: before the click ladder of click_modal_apply_and_wait starts, the
\* enablement of the confirm control was checked at least once and at most 15
\* times; the ladder starts at the first check that saw it enabled, or after
\* the 15th check that did not.
C32_EnablementPolledBeforeLadder ==
    InConfirm =>
      /\ checks <= 15
      /\ pc = "cm_enabled" => (last_obs # "enabled" /\ polls = checks /\ tried = <<>>)
      /\ (pc = "cm_ladder" \/ tried # <<>>) =>
            /\ checks >= 1
            /\ \/ last_obs = "enabled" /\ polls = checks - 1
               \/ last_obs \in {"disabled", "raised"} /\ checks = 15 /\ polls = 15

\* The ladder started after 15 checks that all found the control disabled.
C32_Witness ==
    /\ InConfirm
    /\ tried # <<>>
    /\ checks = 15
    /\ last_obs = "disabled"
\* C33 (as claimed): when the next interaction after a state-changing click
\* begins (here the modal lookup after the apply click), wait_network_idle has
\* been invoked since that click.
C33_SettledBeforeNextInteraction ==
    (InJobLoop /\ pc = "modal_find") => unsettled = "none"
\* C34 (as claimed): handle_easy_apply_modal returns True only if a Submit
\* control was clicked or no modal appeared after the apply click.
C34_AppliedOnlyAfterSubmit ==
    (InModal /\ pc = "after_modal" /\ success = "True") =>
      \/ ~modal_found
      \/ \E k \in 1..Len(clicked) : clicked[k] = "Submit"

\* C35: in the stepping loop the step counter equals the number of Review and
\* Next clicks made so far and never exceeds max_steps, and at most one control
\* is clicked in one iteration.
C35_StepCountsAdvances ==
    InModal =>
      /\ step = advances
      /\ step <= max_steps
      /\ Len(clicked) <= 1

\* At least two clicks were counted, the last of them a Review click.
C35_Witness ==
    /\ InModal
    /\ pc = "modal_while"
    /\ step >= 2
    /\ advances = step
    /\ clicked = <<"Review">>
\* C36 (as claimed): when no filter dialog is on the page, the call of
\* click_modal_apply_and_wait clicks a page-level Apply button through
\* click_apply_in_scope(page).
C36_PageLevelFallback ==
    (InConfirm /\ ~dialog /\ pc = "confirm_after" /\ cm_call = 1 /\ cm_result = "returned") =>
      \E k \in 1..Len(dispatched) :
        /\ dispatched[k].by = "click_apply_in_scope"
        /\ dispatched[k].on = "page"
\* C37 (as claimed): after robust_check_checkbox returns, the targeted
\* checkbox is selected.
C37_CheckboxSelectedOnReturn ==
    (InCheckbox /\ pc = "returned") => checked
\* C38 (as claimed): navigate_to_jobs goes to the search-results URL directly
\* only when the form-based search did not reach the search results, and when
\* it returns after finding the Jobs menu the page is on the search results.
C38_DirectUrlOnlyAsFallback ==
    (InNav /\ pc = "returned" /\ menu_found) =>
      /\ direct_goto => ~form_reached
      /\ nav_page = "results"
\* C39 (as claimed): when handle_required_fields has returned, each field that
\* was empty, visible and required holds the placeholder of the first matching
\* rule (phone/tel, email, name, experience/years, number, "N/A").
C39_EachEmptyFieldGetsPlaceholder ==
    (InFields /\ pc = "returned") =>
      \A f \in 1..Len(form) :
        (/\ form0[f].value = ""
         /\ form0[f].visible
         /\ \E k \in 1..NumRequiredFieldSelectors : SelectorMatches(k, form0[f].shape))
          => form[f].value = Placeholder(form0[f].shape)
\* C40: in main_async the report is written before an e-mail is attempted, an
\* e-mail is attempted only with mail_from, mail_to, username and password all
\* set, and a failed sending is absorbed: the body ends normally and, when the
\* browser was closed, the run returns (exit code 0).
C40_EmailAfterReportAndAbsorbed ==
    InMain =>
      /\ ("email" \in started \/ pc = "email") => report_written
      /\ email \in {"sent", "failed"} => SmtpFields \subseteq smtp_fields
      /\ email = "failed" =>
            /\ failed_step = "none"
            /\ pc \in {"finally_context", "finally_browser", "ended"}
            /\ pc \in {"finally_context", "finally_browser"} => run_end = "returned"
            /\ (pc = "ended" /\ browser = "closed") => run_end = "returned"

\* The sending failed, the browser was closed and the run returned.
C40_Witness ==
    /\ InMain
    /\ report_written
    /\ email = "failed"
    /\ pc = "ended"
    /\ browser = "closed"
    /\ run_end = "returned"
====
